---- MODULE Spec2Model ----
(***************************************************************************)
(* Model of the retroarcade audio bridge: the shared audio buffer written  *)
(* by the emulation thread (EmulatorState::update_audio_buffer) and        *)
(* drained by the host audio callback (the closure built in                *)
(* EmulatorState::create, run by audio::run_with_format), together with    *)
(* the session life cycle of the main loop (macroquad_main), the pixel     *)
(* decoder (EmulatorState::update_framebuffer), the dialogs of             *)
(* App::update, the menu (MenuState::update), the saves (Saves), the cache *)
(* (Cache) and the game database (GameDb::load).                           *)
(*                                                                         *)
(* Samples carry their append position (pos) next to their value (val);    *)
(* pos is bookkeeping of the model, the code stores val only.              *)
(***************************************************************************)
EXTENDS Integers, Sequences, FiniteSets, TLC

(***************************************************************************)
(* Bounds of the model.                                                    *)
(***************************************************************************)
\* samples appended to the shared buffer during one session, at most
MaxSessionSamples == 6
\* stereo frames the core produces in one tick, at most
MaxTickFrames == 2
\* stereo frames the host requests in one callback, at most
MaxOutFrames == 2
\* SpecDrift: stereo frames appended per tick, at most
MaxDriftFrames == 3
\* SpecDrift: stereo frames resident when the run starts, at most
MaxDriftInit == 6

\* SpecPixel: width of the core's framebuffer in pixels, at most
MaxFbWidth == 2

\* SpecApp: dialogs spawned in one run, at most
MaxDialogs == 3

\* SpecMenu: games in the game database, at most
MaxGames == 3
\* SpecMenu: screen_width() as usize / self.max_tile_size, at most
MaxRowWidth == 2

\* SpecSaves: calls of Saves::save in one run, at most
MaxSaves == 2

\* SpecCache: calls of the cache in one run, at most
MaxCacheCalls == 3

\* SpecGameDb: core files in the core directory, at most
MaxCores == 2
\* SpecGameDb: files in the ROM directory, at most
MaxRoms == 2

\* values of an i16 sample the model distinguishes: silence and one other
SampleValues == {0, 1}

\* resample_rate = core_sample_rate / device_sample_rate as <<p, q>> = p/q;
\* the ratios are dyadic, so the f64 products of the code are exact
Ratios == {<<1, 2>>, <<1, 1>>, <<2, 1>>}

VARIABLES
    state,          \* app.state: "Menu" | "Emulator"
    emulator,       \* app.emulator: "None" | "Some"
    mainPc,         \* position of the main (emulation/render) thread
    resample_rate,  \* the ratio captured by the callback closure
    audio_buffer,   \* Vec<i16> behind Arc<Mutex<..>>: sequence of samples
    lock,           \* holder of the Mutex: "free" | "emu" | "cb"
    poisoned,       \* the Mutex is poisoned (a holder panicked)
    arc,            \* strong count of the Arc around the buffer
    stream,         \* audio_stream: "none" | "playing"
    appended,       \* samples appended in this session (next append position)
    cbPc,           \* position of the host callback thread
    buf,            \* run_with_format's temporary Vec<i16> (output_buf)
    output,         \* host output slice as left by the last callback
    cons,           \* locals and bookkeeping of the consume in progress
    max_pos,        \* highest append position copied by finished consumes
    drift,          \* SpecDrift: the fixed rates of the run
    fb_image,       \* self.fb_image: [width, height, bytes], 4 bytes per pixel
    frame,          \* the framebuffer the core offered in the tick in progress
    fault,          \* what ended the process: "none" while it runs
    dialog_queue,   \* app.dialog_queue: sequence of dialogs, front first
    current_dialog, \* app.current_dialog: NoDialog or a dialog
    selected_game,  \* app.menu.selected_game
    spawned,        \* SpecApp: dialogs pushed so far (the next dialog's id - 1)
    presented,      \* SpecApp: ids of the dialogs in the order they became current
    yielded,        \* SpecApp: ids of the dialogs in the order they gave an event
    iteration,      \* SpecApp: what the last iteration of the main loop did
    game_db,        \* app.menu.game_db: [systems, games, untagged_games]
    input,          \* app.menu.input: MenuInput
    menu_update,    \* SpecMenu: what the last MenuState::update did
    saves,          \* app.menu.saves: Saves [saves, path], NoSaves before load
    save_dir,       \* the save directory: file name -> state of the file
    saves_call,     \* SpecSaves: the last call of Saves::load or Saves::save
    cache,          \* app.menu.cache: Cache [hash_cache, image_cache]
    cache_call,     \* SpecCache: the last call of a Cache::get_or_insert_*
    db_load         \* SpecGameDb: how far GameDb::load has come

vars == <<state, emulator, mainPc, resample_rate, audio_buffer, lock, poisoned,
          arc, stream, appended, cbPc, buf, output, cons, max_pos, drift,
          fb_image, frame, fault, dialog_queue, current_dialog, selected_game,
          spawned, presented, yielded, iteration, game_db, input,
          menu_update, saves, save_dir, saves_call, cache, cache_call,
          db_load>>

mainVars == <<state, emulator, mainPc>>
cbVars == <<cbPc, buf, output, cons, max_pos>>
fbVars == <<fb_image, frame, fault>>
appVars == <<dialog_queue, current_dialog, selected_game, spawned, presented,
             yielded, iteration>>
libVars == <<game_db, input, menu_update, saves, save_dir, saves_call, cache,
             cache_call, db_load>>

(***************************************************************************)
(* Pure helpers.                                                           *)
(***************************************************************************)
Max(a, b) == IF a >= b THEN a ELSE b

Min(a, b) == IF a <= b THEN a ELSE b

\* the tail of s after its first k elements: Vec::drain(..k)
DropFront(s, k) == SubSeq(s, k + 1, Len(s))

\* core_buf[sample_index]; the loop reads below the length only, an index past
\* the end yields no sample
NoSample == [pos |-> -1, val |-> 0]

ReadSample(core, idx) == IF idx < Len(core) THEN core[idx + 1] ELSE NoSample

\* Vec::resize(n, 0): truncate, or extend with zeros; kept elements keep their value
Resize(b, n) == [i \in 1..n |-> IF i <= Len(b) THEN b[i] ELSE 0]

\* (output_index as f64 * resample_rate) as usize
SampleIndex(i, r) == (i * r[1]) \div r[2]

\* inputs <<p, q, n, len>> for which the f64 evaluation of
\* ((delay_factor - 1.5) * n) lands just below the integer the exact quotient
\* gives, so that `as usize` truncates to one less (n <= 8, len <= 64)
F64Short ==
    { <<1, 2, 6, 8>>, <<1, 1, 6, 11>>, <<1, 1, 6, 13>>, <<1, 1, 6, 16>>,
      <<2, 1, 3, 11>>, <<2, 1, 3, 13>>, <<2, 1, 5, 17>>, <<2, 1, 5, 19>>,
      <<2, 1, 5, 23>>, <<2, 1, 5, 41>>, <<2, 1, 6, 22>>, <<2, 1, 6, 26>>,
      <<2, 1, 6, 32>>, <<2, 1, 7, 23>>, <<2, 1, 7, 41>>, <<2, 1, 7, 61>> }

\* delay compensation switched off
DelayNever(len, n, r) == FALSE

\* delay_factor > 1.6, delay_factor = len / (n * resample_rate).
\* n = 0: len / 0.0 is +inf (greater) for len > 0 and NaN (not greater) for len = 0
DelayExceeds(len, n, r) ==
    IF n = 0 THEN len > 0
    ELSE 5 * len * r[2] > 8 * n * r[1]

\* ((delay_factor - 1.5) * n) as usize.  n = 0: (inf - 1.5) * 0.0 = NaN, and
\* NaN as usize = 0
SkippedSamples(len, n, r) ==
    IF n = 0 THEN 0
    ELSE ((2 * len * r[2] - 3 * n * r[1]) \div (2 * r[1]))
         - (IF <<r[1], r[2], n, len>> \in F64Short THEN 1 ELSE 0)

\* Delay compensation: core_buf.drain(..skipped_samples), which panics when
\* skipped_samples exceeds the length
DriftStep(core, n, r) ==
    IF DelayExceeds(Len(core), n, r)
    THEN LET s == SkippedSamples(Len(core), n, r)
         IN  IF s > Len(core)
             THEN [panic |-> TRUE, core |-> core, skipped |-> s]
             ELSE [panic |-> FALSE, core |-> DropFront(core, s), skipped |-> s]
    ELSE [panic |-> FALSE, core |-> core, skipped |-> 0]

\* the loop with both comparisons off by one
RECURSIVE CopyCountInclusive(_, _, _, _)
CopyCountInclusive(i, len, n, r) ==
    IF i <= n /\ SampleIndex(i, r) <= len
    THEN CopyCountInclusive(i + 1, len, n, r)
    ELSE i

\* the value of output_index when the loop breaks
RECURSIVE CopyCount(_, _, _, _)
CopyCount(i, len, n, r) ==
    IF i < n /\ SampleIndex(i, r) < len
    THEN CopyCount(i + 1, len, n, r)
    ELSE i

\* The resampling loop: output_buf[i] = core_buf[sample_index]; last = sample_index
CopyStep(core, out, r) ==
    LET k == CopyCount(0, Len(core), Len(out), r)
    IN  [out  |-> [i \in 1..Len(out) |->
                     IF i <= k THEN ReadSample(core, SampleIndex(i - 1, r)).val
                     ELSE out[i]],
         srcs |-> [i \in 1..k |-> ReadSample(core, SampleIndex(i - 1, r)).pos],
         reads |-> [i \in 1..k |-> SampleIndex(i - 1, r)],
         k    |-> k,
         last |-> IF k = 0 THEN 0 ELSE SampleIndex(k - 1, r)]

\* the removal with an exclusive range, drain(..last)
DrainStepExclusive(core, last) ==
    IF last < Len(core) THEN DropFront(core, last) ELSE core

\* Remove used samples: if last < len { drain(..=last) }
DrainStep(core, last) ==
    IF last < Len(core) THEN DropFront(core, last + 1) ELSE core

\* the batch put in front of the resident samples
ExtendFront(core, batch) == batch \o core

\* buf.extend_from_slice(b)
Extend(core, batch) == core \o batch

\* The consume closure as one operation on (core_buf, output_buf)
Consume(core, out, r) ==
    LET d == DriftStep(core, Len(out), r)
        c == CopyStep(d.core, out, r)
    IN  IF d.panic
        THEN [panic |-> TRUE, core |-> core, out |-> out, skipped |-> d.skipped]
        ELSE [panic |-> FALSE, core |-> DrainStep(d.core, c.last), out |-> c.out,
              skipped |-> d.skipped]

\* batches of nf stereo frames appended from position `from`
Batches(nf, from) ==
    { [i \in 1..(2 * nf) |-> [pos |-> from + i - 1, val |-> v[i]]] :
        v \in [1..(2 * nf) -> SampleValues] }

\* cons: buf0, out0 = core_buf and output_buf when the lock was taken;
\* skipped = skipped_samples; k = output_index after the loop; last; srcs, reads =
\* append positions and indices of the samples read; removed = samples removed
NoCons == [buf0 |-> <<>>, out0 |-> <<>>, skipped |-> 0, k |-> 0, last |-> 0,
           srcs |-> <<>>, reads |-> <<>>, removed |-> 0]

NoDrift == [a |-> 0, n |-> 0, init |-> 0, turn |-> "none"]

(***************************************************************************)
(* The pixel decoder: EmulatorState::update_framebuffer.                   *)
(*                                                                         *)
(* A frame offered by the core is [avail, pixfmt, width, height, pitch,    *)
(* len, pat]: avail is the result of peek_framebuffer ("ok": the closure   *)
(* runs on a slice of len bytes, "none": NoFramebufferError, "error": any  *)
(* other error), and byte i of the slice is FbByte(pat, i).  pitch is at   *)
(* least width * pixel_size, so pitch - width does not underflow.          *)
(***************************************************************************)
PixelFormats == {"ARGB1555", "ARGB8888", "RGB565"}

\* contents of the core's framebuffer: "red565" repeats the bytes 0x00 0xF8
\* (the 16-bit value 0xF800), "ramp" makes neighbouring bytes differ
Patterns == {"red565", "ramp"}

\* SpecPixel: heights of the core's framebuffer in pixels
FbHeights == {1, 2}

\* SpecPixel: padding bytes at the end of each framebuffer row
Pads == {0, 1}

\* SpecPixel: bytes missing at the end of the framebuffer; 0 is a complete
\* frame
Truncs == {0, 1, 2}

\* "zero" is a frame of zero bytes
FbByte(pat, i) ==
    IF pat = "red565" THEN (IF i % 2 = 0 THEN 0 ELSE 248)
    ELSE IF pat = "ramp" THEN (16 * i + 5) % 256
    ELSE 0

\* let pixel_size = match pixfmt { .. }
PixelSize(pixfmt) == IF pixfmt = "ARGB8888" THEN 4 ELSE 2

\* an image of [0x00, 0x00, 0x00, 0x00] pixels
BlackImageTransparent(width, height) ==
    [width |-> width, height |-> height,
     bytes |-> [i \in 1..(4 * width * height) |-> 0]]

\* Image { bytes: [0x00, 0x00, 0x00, 0xFF].repeat(width * height), .. }
BlackImage(width, height) ==
    [width |-> width, height |-> height,
     bytes |-> [i \in 1..(4 * width * height) |-> IF i % 4 = 0 THEN 255 ELSE 0]]

\* retro_rs::pixels::rgb565to888(b[0], b[1]): the little-endian 16-bit value
\* is split 5-6-5 and each channel widened to 8 bits by repeating its top bits
Rgb565to888(lo, hi) ==
    LET v == lo + 256 * hi
        r5 == v \div 2048
        g6 == (v \div 32) % 64
        b5 == v % 32
    IN  <<8 * r5 + (r5 \div 4), 4 * g6 + (g6 \div 16), 8 * b5 + (b5 \div 4)>>

\* color_fn: ARGB8888 => (b[2], b[1], b[0]); RGB565 => rgb565to888(b[0], b[1])
ColorFn(pixfmt, pat, fb_index) ==
    IF pixfmt = "ARGB8888"
    THEN <<FbByte(pat, fb_index + 2), FbByte(pat, fb_index + 1),
           FbByte(pat, fb_index)>>
    ELSE Rgb565to888(FbByte(pat, fb_index), FbByte(pat, fb_index + 1))

\* let fb_index = (fb_pitch * y) + (x * pixel_size), pixel k = fb_width * y + x
FbIndex(f, k) ==
    f.pitch * (k \div f.width) + (k % f.width) * PixelSize(f.pixfmt)

\* the guard measured with the pixel size
SkipPixelInclusive(fb_index, pixel_size, len) == fb_index + pixel_size >= len

\* if (fb_index + 2) >= fb.len() { continue; }
SkipPixel(fb_index, pixel_size, len) == fb_index + 2 >= len

\* &fb[fb_index..fb_index + pixel_size] panics when the range ends past the
\* slice
SlicePanics(fb_index, pixel_size, len) == fb_index + pixel_size > len

\* a comparison of the widths only
NeedsResizeWidth(img, fb_width, fb_height) == fb_width # img.width

\* if fb_width != self.fb_image.width || fb_height != self.fb_image.height
NeedsResize(img, fb_width, fb_height) ==
    fb_width # img.width \/ fb_height # img.height

\* resize_framebuffer: a new opaque black image of the core's size
ResizeFramebuffer(width, height) == BlackImage(width, height)

\* the closure given to peek_framebuffer, for a supported format: the pixels
\* are visited row by row; the first pixel whose slice panics ends the loop
\* and leaves the pixels written before it
Decode(img, f) ==
    LET ps == PixelSize(f.pixfmt)
        pixels == 0..(f.width * f.height - 1)
        taken(k) == ~SkipPixel(FbIndex(f, k), ps, f.len)
        panics == {k \in pixels : taken(k) /\ SlicePanics(FbIndex(f, k), ps, f.len)}
        stop == IF panics = {} THEN f.width * f.height
                ELSE CHOOSE k \in panics : \A j \in panics : k <= j
        written == {k \in pixels : k < stop /\ taken(k)}
        byte(i) == LET k == (i - 1) \div 4
                       ch == (i - 1) % 4
                   IN  IF k \notin written THEN img.bytes[i]
                       ELSE IF ch = 3 THEN 255
                       ELSE ColorFn(f.pixfmt, f.pat, FbIndex(f, k))[ch + 1]
    IN  [img |-> [img EXCEPT !.bytes = [i \in 1..Len(img.bytes) |-> byte(i)]],
         outcome |-> IF panics = {} THEN "ok" ELSE "panic_index",
         written |-> written]

\* update_framebuffer as a whole: the resize comes first, then
\* peek_framebuffer; NoFramebufferError is logged, any other error panics,
\* ARGB1555 reaches unimplemented!() inside the closure
UpdateFramebuffer(img, f) ==
    LET resized == NeedsResize(img, f.width, f.height)
        img1 == IF resized THEN ResizeFramebuffer(f.width, f.height) ELSE img
        r == IF f.avail = "none"
                THEN [img |-> img1, outcome |-> "no_framebuffer", written |-> {}]
             ELSE IF f.avail = "error"
                THEN [img |-> img1, outcome |-> "panic_error", written |-> {}]
             ELSE IF f.pixfmt = "ARGB1555"
                THEN [img |-> img1, outcome |-> "panic_unimplemented",
                      written |-> {}]
             ELSE Decode(img1, f)
    IN  [img |-> r.img, outcome |-> r.outcome, written |-> r.written,
         resized |-> resized]

\* outcomes of update_framebuffer that unwind the main thread
Panics == {"panic_error", "panic_unimplemented", "panic_index"}

\* no tick in progress
NoFrame == [avail |-> "idle"]

\* app.current_dialog = None
NoDialog == [id |-> 0]

\* no iteration of the main loop has run
NoIteration ==
    [branch |-> "none", event |-> "Continue", by |-> 0, channels |-> 0,
     ops |-> <<>>]

\* the frame of a tick together with what update_framebuffer made of it
FrameDone(f, r) ==
    [avail |-> f.avail, pixfmt |-> f.pixfmt, width |-> f.width,
     height |-> f.height, pitch |-> f.pitch, len |-> f.len, pat |-> f.pat,
     outcome |-> r.outcome, written |-> r.written, resized |-> r.resized]

\* a frame of the given format and size with padding pad per row, cut short
\* by trunc bytes
MkFrame(avail, pixfmt, width, height, pad, trunc, pat) ==
    LET pitch == width * PixelSize(pixfmt) + pad
    IN  [avail |-> avail, pixfmt |-> pixfmt, width |-> width,
         height |-> height, pitch |-> pitch,
         len |-> Max(0, pitch * height - trunc), pat |-> pat]

\* Spec: what the core of a one-pixel game offers in a tick: no framebuffer,
\* an error, an ARGB1555 frame, or a complete ARGB8888 frame of zero bytes
TickFrames ==
    {MkFrame("none", "ARGB8888", 1, 1, 0, 4, "zero"),
     MkFrame("error", "ARGB8888", 1, 1, 0, 4, "zero"),
     MkFrame("ok", "ARGB1555", 1, 1, 0, 0, "zero"),
     MkFrame("ok", "ARGB8888", 1, 1, 0, 0, "zero")}

(***************************************************************************)
(* The menu (MenuState::update, get_input) and the game database it        *)
(* browses (GameDb).                                                       *)
(***************************************************************************)
\* a GameDb: systems maps a system id to [extensions], games maps a rom id
\* to [system_id], untagged_games is a sequence of [system_id, extension]
NoGameDb == [systems |-> <<>>, games |-> <<>>, untagged_games |-> <<>>]

\* the keys of a map in the order its iterator yields them; a HashMap
\* iterates in an arbitrary order that is fixed while the map is not
\* modified, the model takes the ascending one
RECURSIVE KeysInOrder(_)
KeysInOrder(ks) ==
    IF ks = {} THEN <<>>
    ELSE LET k == CHOOSE x \in ks : \A y \in ks : x <= y
         IN  <<k>> \o KeysInOrder(ks \ {k})

\* GameDb::games_iter: the tagged games, then the untagged ones
GamesIter(db) ==
    LET ks == KeysInOrder(DOMAIN db.games)
    IN  [i \in 1..Len(ks) |-> [id |-> <<"Tagged", ks[i]>>,
                               game |-> db.games[ks[i]]]]
        \o [i \in 1..Len(db.untagged_games) |->
               [id |-> <<"Untagged", i - 1>>, game |-> db.untagged_games[i]]]

\* usize::saturating_sub
SaturatingSub(a, b) == IF a >= b THEN a - b ELSE 0

\* MenuInput::default()
NoInput == [direction |-> "None", enter |-> FALSE, up |-> FALSE,
            down |-> FALSE, left |-> FALSE, right |-> FALSE]

\* what a key or a gamepad button stands for in the menu
Controls == {"Right", "Left", "Down", "Up", "Enter"}

\* a get_input that applies a direction for as long as it is held
GetInputLevel(keys, pad, inp) ==
    LET right == "Right" \in keys \/ "Right" \in pad
        left == "Left" \in keys \/ "Left" \in pad
        down == "Down" \in keys \/ "Down" \in pad
        up == "Up" \in keys \/ "Up" \in pad
        enter == "Enter" \in keys \/ "Enter" \in pad
    IN  [direction |-> IF right THEN "Right"
                       ELSE IF left THEN "Left"
                       ELSE IF down THEN "Down"
                       ELSE IF up THEN "Up"
                       ELSE "None",
         enter |-> enter, up |-> up, down |-> down, left |-> left,
         right |-> right]

\* get_input: keys are the controls for which is_key_pressed is true in
\* this frame, pad those for which some gamepad's is_pressed is true; inp is
\* the MenuInput of the previous update
GetInput(keys, pad, inp) ==
    LET right == "Right" \in keys \/ "Right" \in pad
        left == "Left" \in keys \/ "Left" \in pad
        down == "Down" \in keys \/ "Down" \in pad
        up == "Up" \in keys \/ "Up" \in pad
        enter == "Enter" \in keys \/ "Enter" \in pad
    IN  [direction |-> IF ~inp.right /\ right THEN "Right"
                       ELSE IF ~inp.left /\ left THEN "Left"
                       ELSE IF ~inp.down /\ down THEN "Down"
                       ELSE IF ~inp.up /\ up THEN "Up"
                       ELSE "None",
         enter |-> enter, up |-> up, down |-> down, left |-> left,
         right |-> right]

\* MenuState::update, the new selected_game: the direction is applied with
\* saturating arithmetic (the sums here stay far below usize::MAX), then
\* .max(0).min(game_count.saturating_sub(1))
MoveSelection(sel, direction, row_width, game_count) ==
    LET moved == IF direction = "Right" THEN sel + 1
                 ELSE IF direction = "Left" THEN SaturatingSub(sel, 1)
                 ELSE IF direction = "Down" THEN sel + row_width
                 ELSE IF direction = "Up" THEN SaturatingSub(sel, row_width)
                 ELSE sel
    IN  Min(Max(moved, 0), SaturatingSub(game_count, 1))

\* MenuState::update: the input, the selection and the event; with enter,
\* games_iter().nth(selected_game).unwrap() and get_system(game.system_id)
\* panic when there is no such game or no such system
MenuUpdate(db, sel, inp, keys, pad, row_width) ==
    LET games == GamesIter(db)
        new_input == GetInput(keys, pad, inp)
        new_sel == MoveSelection(sel, new_input.direction, row_width,
                                 Len(games))
    IN  [input |-> new_input,
         selected_game |-> new_sel,
         event |-> IF ~new_input.enter THEN "Continue"
                   ELSE IF new_sel >= Len(games) THEN "panic_unwrap"
                   ELSE IF games[new_sel + 1].game.system_id
                              \notin DOMAIN db.systems
                       THEN "panic_system"
                   ELSE "StartEmulator"]

\* before the first MenuState::update
NoMenuUpdate == [event |-> "none", previous_game |-> 0, row_width |-> 0]

(***************************************************************************)
(* The saves (Saves::load, Saves::save).  A string is a sequence of        *)
(* characters, a date is [year, month, day, hour, minute, second, nano].   *)
(***************************************************************************)
DigitChars == <<"0", "1", "2", "3", "4", "5", "6", "7", "8", "9">>

IsDigit(c) == \E i \in 1..10 : DigitChars[i] = c

DigitValue(c) == (CHOOSE i \in 1..10 : DigitChars[i] = c) - 1

\* Display of an unsigned integer
RECURSIVE FormatNat(_)
FormatNat(n) ==
    IF n < 10 THEN <<DigitChars[n + 1]>>
    ELSE FormatNat(n \div 10) \o <<DigitChars[(n % 10) + 1]>>

\* a number zero-padded to w digits, as %Y (4) and %m %d %H %M %S (2) print
Pad(n, w) ==
    LET str == FormatNat(n)
    IN  [i \in 1..(w - Len(str)) |-> "0"] \o str

\* Display of an i64
FormatI64(n) == IF n < 0 THEN <<"-">> \o FormatNat(-n) ELSE FormatNat(n)

\* the file name Saves::save builds:
\* format!("{}_{}_{}_{}.sav", username, game, %Y%m%d, %H%M%S)
SaveName(username, game, date) ==
    username \o <<"_">> \o FormatI64(game) \o <<"_">>
    \o Pad(date.year, 4) \o Pad(date.month, 2) \o Pad(date.day, 2) \o <<"_">>
    \o Pad(date.hour, 2) \o Pad(date.minute, 2) \o Pad(date.second, 2)
    \o <<".", "s", "a", "v">>

\* Path::file_stem: the file name up to its last dot, the whole name if it
\* has no dot after its first character
FileStem(name) ==
    LET dots == {i \in 2..Len(name) : name[i] = "."}
    IN  IF dots = {} THEN name
        ELSE SubSeq(name, 1, (CHOOSE i \in dots : \A j \in dots : j <= i) - 1)

\* position of the first "_" of str at or after position from, 0 if none
FindUnderscore(str, from) ==
    LET us == {i \in from..Len(str) : str[i] = "_"}
    IN  IF us = {} THEN 0 ELSE CHOOSE i \in us : \A j \in us : i <= j

\* str.splitn(3, "_").collect(): at most three parts, the third part keeps
\* the underscores after the second one
SplitN3(str) ==
    LET i == FindUnderscore(str, 1)
        j == FindUnderscore(str, i + 1)
    IN  IF i = 0 THEN <<str>>
        ELSE IF j = 0
            THEN <<SubSeq(str, 1, i - 1), SubSeq(str, i + 1, Len(str))>>
        ELSE <<SubSeq(str, 1, i - 1), SubSeq(str, i + 1, j - 1),
               SubSeq(str, j + 1, Len(str))>>

\* value of a sequence of digits
RECURSIVE DigitsValue(_)
DigitsValue(ds) ==
    IF ds = <<>> THEN 0
    ELSE 10 * DigitsValue(SubSeq(ds, 1, Len(ds) - 1)) + DigitValue(ds[Len(ds)])

\* str.parse::<i64>(): an optional sign and one digit or more
ParseI64(str) ==
    LET signed == str # <<>> /\ str[1] \in {"+", "-"}
        ds == IF signed THEN Tail(str) ELSE str
    IN  IF ds = <<>> \/ \E i \in 1..Len(ds) : ~IsDigit(ds[i])
        THEN [ok |-> FALSE, value |-> 0]
        ELSE [ok |-> TRUE,
              value |-> IF signed /\ str[1] = "-" THEN -DigitsValue(ds)
                        ELSE DigitsValue(ds)]

\* a numeric item of a chrono format at position pos of str: the digits
\* there, one at least and w at most (any number after a sign, which only
\* the year accepts); next is the position after them
TakeNumber(str, pos, w, sign) ==
    LET signed == sign /\ pos <= Len(str) /\ str[pos] \in {"+", "-"}
        from == IF signed THEN pos + 1 ELSE pos
        most == IF signed THEN Len(str) ELSE w
        ends == {k \in 0..most :
                    \/ k = 0
                    \/ /\ from + k - 1 <= Len(str)
                       /\ \A i \in from..(from + k - 1) : IsDigit(str[i])}
        k == CHOOSE x \in ends : \A y \in ends : y <= x
        v == DigitsValue(SubSeq(str, from, from + k - 1))
    IN  [ok |-> k > 0,
         value |-> IF signed /\ str[pos] = "-" THEN -v ELSE v,
         next |-> from + k]

\* NaiveDateTime::parse_from_str(str, "%Y%m%d_%H%M%S"); the day is checked
\* against 31, the dates of the model keep away from the ends of months.
\* The items are parsed left to right, each from the position the one
\* before it ended at.
ParseDate(str) ==
    LET Parsed(y, mo, d, h, mi, sec) ==
            IF /\ y.ok /\ mo.ok /\ d.ok /\ h.ok /\ mi.ok /\ sec.ok
               /\ d.next <= Len(str) /\ str[d.next] = "_"
               /\ sec.next = Len(str) + 1
               /\ mo.value \in 1..12 /\ d.value \in 1..31
               /\ h.value <= 23 /\ mi.value <= 59 /\ sec.value <= 60
            THEN [ok |-> TRUE,
                  date |-> [year |-> y.value, month |-> mo.value,
                            day |-> d.value, hour |-> h.value,
                            minute |-> mi.value, second |-> sec.value,
                            nano |-> 0]]
            ELSE [ok |-> FALSE, date |-> <<>>]
        results ==
            UNION {UNION {UNION {UNION {UNION {
                {Parsed(y, mo, d, h, mi, sec) :
                    sec \in {TakeNumber(str, mi.next, 2, FALSE)}} :
                    mi \in {TakeNumber(str, h.next, 2, FALSE)}} :
                    h \in {TakeNumber(str, d.next + 1, 2, FALSE)}} :
                    d \in {TakeNumber(str, mo.next, 2, FALSE)}} :
                    mo \in {TakeNumber(str, y.next, 2, FALSE)}} :
                    y \in {TakeNumber(str, 1, 4, TRUE)}}
    IN  CHOOSE r \in results : TRUE

\* a Saves that is not loaded
NoSaves == [saves |-> <<>>, path |-> "none"]

\* self.saves.entry(username).or_insert_with(Vec::new)
EntryOrInsert(index, username) ==
    [u \in DOMAIN index \cup {username} |->
        IF u \in DOMAIN index THEN index[u] ELSE <<>>]

\* .push(save_state) on the entry of username
PushSave(index, username, save_state) ==
    LET with == EntryOrInsert(index, username)
    IN  [with EXCEPT ![username] = Append(@, save_state)]

\* Saves::load, the body of the loop for one directory entry: acc is
\* [result, saves]; parts[0..3] panics on fewer than three parts, a date
\* that does not parse skips the entry, a game that does not parse ends the
\* load with an error
LoadEntry(acc, path, name) ==
    LET parts == SplitN3(FileStem(name))
    IN  IF Len(parts) < 3 THEN [acc EXCEPT !.result = "panic"]
        ELSE LET date == ParseDate(parts[3])
                 game == ParseI64(parts[2])
                 with == EntryOrInsert(acc.saves, parts[1])
             IN  IF ~date.ok THEN [acc EXCEPT !.saves = with]
                 ELSE IF ~game.ok
                     THEN [result |-> "Err", saves |-> with]
                 ELSE [acc EXCEPT !.saves =
                          PushSave(with, parts[1],
                                   [path |-> <<path, name>>,
                                    game |-> game.value,
                                    date |-> date.date])]

\* the loop of Saves::load over the first k entries in the order read_dir
\* yields them
RECURSIVE LoadLoop(_, _, _)
LoadLoop(path, order, k) ==
    IF k = 0 THEN [result |-> "Ok", saves |-> <<>>]
    ELSE LET acc == LoadLoop(path, order, k - 1)
         IN  IF acc.result # "Ok" THEN acc
             ELSE LoadEntry(acc, path, order[k])

\* Saves::load; readable says whether fs::read_dir succeeds
Load(path, order, readable) ==
    IF ~readable THEN [result |-> "ErrReadDir", saves |-> NoSaves]
    ELSE LET r == LoadLoop(path, order, Len(order))
         IN  IF r.result = "Ok"
             THEN [result |-> "Ok", saves |-> [saves |-> r.saves, path |-> path]]
             ELSE [result |-> r.result, saves |-> NoSaves]

\* a save that records the SaveState before it writes the file
SaveIndexFirst(sv, dir, username, game, date, outcome) ==
    LET name == SaveName(username, game, date)
        entry == [path |-> <<sv.path, name>>, game |-> game, date |-> date]
        pushed == [sv EXCEPT !.saves = PushSave(@, username, entry)]
    IN  IF outcome = "create_fails"
        THEN [result |-> "Err", saves |-> pushed, dir |-> dir]
        ELSE [result |-> IF outcome = "write_fails" THEN "Err" ELSE "Ok",
              saves |-> pushed,
              dir |-> [n \in DOMAIN dir \cup {name} |->
                          IF n # name THEN dir[n]
                          ELSE IF outcome = "write_fails" THEN "partial"
                          ELSE "written"]]

\* Saves::save: File::create (truncating), write_all, then the push;
\* outcome says which of the two file operations fails, if any
Save(sv, dir, username, game, date, outcome) ==
    LET name == SaveName(username, game, date)
        entry == [path |-> <<sv.path, name>>, game |-> game, date |-> date]
    IN  IF outcome = "create_fails"
        THEN [result |-> "Err", saves |-> sv, dir |-> dir]
        ELSE IF outcome = "write_fails"
        THEN [result |-> "Err", saves |-> sv,
              dir |-> [n \in DOMAIN dir \cup {name} |->
                          IF n = name THEN "partial" ELSE dir[n]]]
        ELSE [result |-> "Ok",
              saves |-> [sv EXCEPT !.saves = PushSave(@, username, entry)],
              dir |-> [n \in DOMAIN dir \cup {name} |->
                          IF n = name THEN "written" ELSE dir[n]]]

\* before the first call
NoSavesCall == [op |-> "none", result |-> "none", count |-> 0, name |-> <<>>,
                written |-> {}]

(***************************************************************************)
(* The cache (Cache::get_or_insert_rom_hash, Cache::get_or_insert_image).  *)
(* A sled::Db is a map from keys to byte strings; store says which of its  *)
(* operations fails in a call, if any.                                     *)
(***************************************************************************)
\* hash::bytes_to_hex: write!(hex, "{:02X}", byte) for each byte
BytesToHex(bytes) ==
    LET hex == <<"0", "1", "2", "3", "4", "5", "6", "7", "8", "9", "A", "B",
                 "C", "D", "E", "F">>
        Pair(b) == <<hex[(b \div 16) + 1], hex[(b % 16) + 1]>>
        F[i \in 0..Len(bytes)] ==
            IF i = 0 THEN <<>> ELSE F[i - 1] \o Pair(bytes[i])
    IN  F[Len(bytes)]

\* a get_or_insert_rom_hash that asks the producer whether or not the key is
\* cached
GetOrInsertRomHashAlways(db, path, produced, store) ==
    IF store = "get_fails"
    THEN [result |-> "Err", value |-> <<>>, called |-> FALSE, db |-> db]
    ELSE IF ~produced.ok
    THEN [result |-> "Err", value |-> <<>>, called |-> TRUE, db |-> db]
    ELSE IF store = "insert_fails"
    THEN [result |-> "Err", value |-> <<>>, called |-> TRUE, db |-> db]
    ELSE [result |-> "Ok", value |-> BytesToHex(produced.value),
          called |-> TRUE,
          db |-> [k \in DOMAIN db \cup {path} |->
                     IF k = path THEN BytesToHex(produced.value) ELSE db[k]]]

\* Cache::get_or_insert_rom_hash on hash_cache = db; produced is what f
\* returns if it is called.  The cached value is the hex string, which
\* String::from_utf8 accepts
GetOrInsertRomHash(db, path, produced, store) ==
    IF store = "get_fails"
    THEN [result |-> "Err", value |-> <<>>, called |-> FALSE, db |-> db]
    ELSE IF path \in DOMAIN db
    THEN [result |-> "Ok", value |-> db[path], called |-> FALSE, db |-> db]
    ELSE IF ~produced.ok
    THEN [result |-> "Err", value |-> <<>>, called |-> TRUE, db |-> db]
    ELSE IF store = "insert_fails"
    THEN [result |-> "Err", value |-> <<>>, called |-> TRUE, db |-> db]
    ELSE [result |-> "Ok", value |-> BytesToHex(produced.value),
          called |-> TRUE,
          db |-> [k \in DOMAIN db \cup {path} |->
                     IF k = path THEN BytesToHex(produced.value) ELSE db[k]]]

\* Cache::get_or_insert_image on image_cache = db
GetOrInsertImage(db, url, produced, store) ==
    IF store = "get_fails"
    THEN [result |-> "Err", value |-> <<>>, called |-> FALSE, db |-> db]
    ELSE IF url \in DOMAIN db
    THEN [result |-> "Ok", value |-> db[url], called |-> FALSE, db |-> db]
    ELSE IF ~produced.ok
    THEN [result |-> "Err", value |-> <<>>, called |-> TRUE, db |-> db]
    ELSE IF store = "insert_fails"
    THEN [result |-> "Err", value |-> <<>>, called |-> TRUE, db |-> db]
    ELSE [result |-> "Ok", value |-> produced.value, called |-> TRUE,
          db |-> [k \in DOMAIN db \cup {url} |->
                     IF k = url THEN produced.value ELSE db[k]]]

\* Cache::new over two empty databases
NoCache == [hash_cache |-> <<>>, image_cache |-> <<>>]

\* before the first call
NoCacheCall == [op |-> "none", key |-> "none", produced |-> <<>>,
                store |-> "none", result |-> "none", value |-> <<>>,
                called |-> FALSE, count |-> 0]

\* GameDb::load has not begun
NoDbLoad == [pc |-> "idle", cores |-> 0, roms |-> 0]

\* the menu, the game database, the saves and the cache before they are
\* loaded or used
LibIdle ==
    /\ game_db = NoGameDb
    /\ input = NoInput
    /\ menu_update = NoMenuUpdate
    /\ saves = NoSaves
    /\ save_dir = <<>>
    /\ saves_call = NoSavesCall
    /\ cache = NoCache
    /\ cache_call = NoCacheCall
    /\ db_load = NoDbLoad

(***************************************************************************)
(* Init: macroquad_main after constructing App.                            *)
(***************************************************************************)
\* the app, its session and its dialogs as macroquad_main constructs them
AppConstructed ==
    /\ state = "Menu"
    /\ emulator = "None"
    /\ mainPc = "update"
    /\ resample_rate = <<1, 1>>
    /\ audio_buffer = <<>>
    /\ lock = "free"
    /\ poisoned = FALSE
    /\ arc = 0
    /\ stream = "none"
    /\ appended = 0
    /\ cbPc = "idle"
    /\ buf = <<>>
    /\ output = <<>>
    /\ cons = NoCons
    /\ max_pos = -1
    /\ drift = NoDrift
    /\ fb_image = BlackImage(0, 0)
    /\ frame = NoFrame
    /\ fault = "none"
    /\ dialog_queue = <<>>
    /\ current_dialog = NoDialog
    /\ selected_game = 0
    /\ spawned = 0
    /\ presented = <<>>
    /\ yielded = <<>>
    /\ iteration = NoIteration

Init ==
    /\ AppConstructed
    /\ LibIdle

\* a lock() that does not wait for the holder
MutexIgnored == TRUE

(***************************************************************************)
(* The Mutex around the buffer: lock() blocks until the Mutex is free.     *)
(***************************************************************************)
MutexFree == lock = "free"

(***************************************************************************)
(* Main thread: one iteration of the loop of macroquad_main.               *)
(***************************************************************************)
\* Menu state, menu.update() returns Continue
MenuContinue ==
    /\ mainPc = "update"
    /\ state = "Menu"
    /\ UNCHANGED vars

\* Menu state, menu.update() returns StartEmulator: app.state = Emulator,
\* then EmulatorState::create is evaluated
StartEmulator ==
    /\ mainPc = "update"
    /\ state = "Menu"
    /\ state' = "Emulator"
    /\ mainPc' = "create"
    /\ UNCHANGED <<emulator, resample_rate, audio_buffer, lock, poisoned, arc,
                   stream, appended, cbVars, drift, fbVars, appVars, libVars>>

\* EmulatorState::create succeeds: the buffer is allocated, the closure holds
\* a clone of the Arc, the stream is built and played
Create ==
    /\ mainPc = "create"
    /\ \E r \in Ratios : resample_rate' = r
    /\ audio_buffer' = <<>>
    /\ lock' = "free"
    /\ poisoned' = FALSE
    /\ arc' = 2
    /\ stream' = "playing"
    /\ appended' = 0
    /\ cbPc' = "idle"
    /\ buf' = <<>>
    /\ output' = <<>>
    /\ cons' = NoCons
    /\ max_pos' = -1
    /\ emulator' = "Some"
    /\ mainPc' = "update"
    /\ fb_image' = BlackImage(1, 1)
    /\ frame' = NoFrame
    /\ UNCHANGED <<state, drift, fault, appVars, libVars>>

\* EmulatorState::create panics: no default output device (expect), a channel
\* count other than 2 (assert_eq), or a stream that cannot be built or played
\* (unwrap); the main thread unwinds and the process ends
CreateFails ==
    /\ mainPc = "create"
    /\ mainPc' = "exited"
    /\ fault' = "create"
    /\ UNCHANGED <<state, emulator, resample_rate, audio_buffer, lock, poisoned,
                   arc, stream, appended, cbVars, drift, fb_image, frame,
                   appVars, libVars>>

\* Emulator state, quit not requested: emu.run, update_framebuffer, then
\* update_audio_buffer is entered; a panic of update_framebuffer unwinds the
\* main thread and the process ends
Tick ==
    /\ mainPc = "update"
    /\ state = "Emulator"
    /\ emulator = "Some"
    /\ \E f \in TickFrames :
         LET r == UpdateFramebuffer(fb_image, f)
         IN  /\ fb_image' = r.img
             /\ frame' = FrameDone(f, r)
             /\ IF r.outcome \in Panics
                THEN /\ mainPc' = "exited"
                     /\ fault' = r.outcome
                ELSE /\ mainPc' = "audio_lock"
                     /\ UNCHANGED fault
    /\ UNCHANGED <<state, emulator, resample_rate, audio_buffer, lock, poisoned,
                   arc, stream, appended, cbVars, drift, appVars, libVars>>

\* update_audio_buffer: peek_audio_buffer returns an error, `?` hands it to
\* update, whose unwrap panics
AudioReadFails ==
    /\ mainPc = "audio_lock"
    /\ mainPc' = "exited"
    /\ fault' = "audio_error"
    /\ UNCHANGED <<state, emulator, resample_rate, audio_buffer, lock, poisoned,
                   arc, stream, appended, cbVars, drift, fb_image, frame,
                   appVars, libVars>>

\* update_audio_buffer: self.audio_buffer.lock().unwrap(); a poisoned Mutex
\* makes unwrap panic
AudioLock ==
    /\ mainPc = "audio_lock"
    /\ MutexFree
    /\ IF poisoned
       THEN /\ mainPc' = "exited"
            /\ fault' = "poisoned"
            /\ UNCHANGED lock
       ELSE /\ mainPc' = "audio_extend"
            /\ lock' = "emu"
            /\ UNCHANGED fault
    /\ UNCHANGED <<state, emulator, resample_rate, audio_buffer, poisoned, arc,
                   stream, appended, cbVars, drift, fb_image, frame,
                   appVars, libVars>>

\* update_audio_buffer: buf.extend_from_slice(b), the guard is dropped
AudioExtend ==
    /\ mainPc = "audio_extend"
    /\ \E nf \in 0..Min(MaxTickFrames, (MaxSessionSamples - appended) \div 2) :
         \E batch \in Batches(nf, appended) :
            /\ audio_buffer' = Extend(audio_buffer, batch)
            /\ appended' = appended + 2 * nf
    /\ lock' = "free"
    /\ mainPc' = "update"
    /\ frame' = NoFrame
    /\ UNCHANGED <<state, emulator, resample_rate, poisoned, arc, stream,
                   cbVars, drift, fb_image, fault, appVars, libVars>>

\* GoToMenu that leaves the session in place: nothing is dropped
GoToMenuKeepsSession ==
    /\ mainPc = "update"
    /\ state = "Emulator"
    /\ emulator = "Some"
    /\ mainPc' = "set_menu"
    /\ UNCHANGED <<state, emulator, resample_rate, audio_buffer, lock, poisoned,
                   arc, stream, appended, cbVars, drift, fbVars,
                   appVars, libVars>>

\* Emulator state, should_quit_game: update returns GoToMenu; the emulator is
\* moved out of app, the snapshot is taken and saved
GoToMenu ==
    /\ mainPc = "update"
    /\ state = "Emulator"
    /\ emulator = "Some"
    /\ mainPc' = "drop_stream"
    /\ UNCHANGED <<state, emulator, resample_rate, audio_buffer, lock, poisoned,
                   arc, stream, appended, cbVars, drift, fbVars,
                   appVars, libVars>>

\* GoToMenu, saves.save(..)? fails: macroquad_main returns the error and the
\* process ends
GoToMenuSaveFails ==
    /\ mainPc = "update"
    /\ state = "Emulator"
    /\ emulator = "Some"
    /\ mainPc' = "exited"
    /\ UNCHANGED <<state, emulator, resample_rate, audio_buffer, lock, poisoned,
                   arc, stream, appended, cbVars, drift, fb_image, frame,
                   appVars, libVars>>
    /\ fault' = "save"

\* drop of EmulatorState, field audio_stream: the stream is stopped (the drop
\* waits for a callback in flight) and the closure, with its clone of the Arc
\* and the temporary Vec it owns, is released
DropStream ==
    /\ mainPc = "drop_stream"
    /\ cbPc \in {"idle", "panicked"}
    /\ stream' = "none"
    /\ arc' = arc - 1
    /\ cbPc' = "idle"
    /\ buf' = <<>>
    /\ output' = <<>>
    /\ cons' = NoCons
    /\ max_pos' = -1
    /\ mainPc' = "drop_buffer"
    /\ UNCHANGED <<state, emulator, resample_rate, audio_buffer, lock, poisoned,
                   appended, drift, fbVars, appVars, libVars>>

\* drop of EmulatorState, field audio_buffer: the last Arc goes, the Vec is freed
DropBuffer ==
    /\ mainPc = "drop_buffer"
    /\ arc' = arc - 1
    /\ audio_buffer' = IF arc' = 0 THEN <<>> ELSE audio_buffer
    /\ mainPc' = "set_menu"
    /\ UNCHANGED <<state, emulator, resample_rate, lock, poisoned, stream,
                   appended, cbVars, drift, fbVars, appVars, libVars>>

\* app.state = AppState::Menu; app.emulator = None
SetMenu ==
    /\ mainPc = "set_menu"
    /\ state' = "Menu"
    /\ emulator' = "None"
    /\ mainPc' = "update"
    /\ UNCHANGED <<resample_rate, audio_buffer, lock, poisoned, arc, stream,
                   appended, cbVars, drift, fbVars, appVars, libVars>>

(***************************************************************************)
(* Host callback thread: the closure given to build_output_stream, which   *)
(* calls the consume closure of EmulatorState::create.                     *)
(***************************************************************************)
\* for output_frame in output.chunks_mut(2): sample_iter.next().unwrap_or(&[0, 0])
WriteOutput(b, n) ==
    [i \in 1..n |-> IF 2 * ((i - 1) \div 2) + 2 <= Len(b) THEN b[i] ELSE 0]

\* the host asks for nf stereo frames: buf.resize(output.len(), 0)
CallbackStart ==
    /\ cbPc = "idle"
    /\ stream = "playing"
    /\ mainPc # "exited"
    /\ \E nf \in 0..MaxOutFrames :
         /\ buf' = Resize(buf, 2 * nf)
         /\ cons' = NoCons
    /\ cbPc' = "source"
    /\ UNCHANGED <<mainVars, resample_rate, audio_buffer, lock, poisoned, arc,
                   stream, appended, output, max_pos, drift, fbVars,
                   appVars, libVars>>

\* let mut core_buf = audio_buffer.lock().unwrap(); output_index = 0; last = 0
CallbackLock ==
    /\ cbPc = "source"
    /\ mainPc # "exited"
    /\ MutexFree
    /\ lock' = "cb"
    /\ cons' = [cons EXCEPT !.buf0 = audio_buffer, !.out0 = buf]
    /\ cbPc' = "locked"
    /\ UNCHANGED <<mainVars, resample_rate, audio_buffer, poisoned, arc, stream,
                   appended, buf, output, max_pos, drift, fbVars,
                   appVars, libVars>>

\* Delay compensation; a panic unwinds the callback thread and poisons the Mutex
CallbackDrift ==
    /\ cbPc = "locked"
    /\ mainPc # "exited"
    /\ LET d == DriftStep(audio_buffer, Len(buf), resample_rate)
       IN  /\ cons' = [cons EXCEPT !.skipped = d.skipped]
           /\ IF d.panic
              THEN /\ cbPc' = "panicked"
                   /\ poisoned' = TRUE
                   /\ lock' = "free"
                   /\ UNCHANGED audio_buffer
              ELSE /\ cbPc' = "drifted"
                   /\ audio_buffer' = d.core
                   /\ UNCHANGED <<poisoned, lock>>
    /\ UNCHANGED <<mainVars, resample_rate, arc, stream, appended, buf, output,
                   max_pos, drift, fbVars, appVars, libVars>>

\* the resampling loop
CallbackCopy ==
    /\ cbPc = "drifted"
    /\ mainPc # "exited"
    /\ LET c == CopyStep(audio_buffer, buf, resample_rate)
       IN  /\ buf' = c.out
           /\ cons' = [cons EXCEPT !.k = c.k, !.last = c.last, !.srcs = c.srcs,
                                   !.reads = c.reads]
    /\ cbPc' = "copied"
    /\ UNCHANGED <<mainVars, resample_rate, audio_buffer, lock, poisoned, arc,
                   stream, appended, output, max_pos, drift, fbVars,
                   appVars, libVars>>

RECURSIVE SeqMax(_, _)
SeqMax(s, m) == IF s = <<>> THEN m ELSE SeqMax(Tail(s), Max(m, Head(s)))

\* Remove used samples; the closure returns and the guard is dropped
CallbackDrain ==
    /\ cbPc = "copied"
    /\ mainPc # "exited"
    /\ audio_buffer' = DrainStep(audio_buffer, cons.last)
    /\ cons' = [cons EXCEPT !.removed = Len(cons.buf0) - Len(audio_buffer')]
    /\ max_pos' = SeqMax(cons.srcs, max_pos)
    /\ lock' = "free"
    /\ cbPc' = "filled"
    /\ UNCHANGED <<mainVars, resample_rate, poisoned, arc, stream, appended,
                   buf, output, drift, fbVars, appVars, libVars>>

\* back in run_with_format: the frames of buf are written to the host output
CallbackFinish ==
    /\ cbPc = "filled"
    /\ mainPc # "exited"
    /\ output' = WriteOutput(buf, Len(buf))
    /\ cons' = NoCons
    /\ cbPc' = "idle"
    /\ UNCHANGED <<mainVars, resample_rate, audio_buffer, lock, poisoned, arc,
                   stream, appended, buf, max_pos, drift, fbVars,
                   appVars, libVars>>

Next ==
    \/ MenuContinue
    \/ StartEmulator
    \/ Create
    \/ CreateFails
    \/ Tick
    \/ AudioReadFails
    \/ AudioLock
    \/ AudioExtend
    \/ GoToMenu
    \/ GoToMenuSaveFails
    \/ DropStream
    \/ DropBuffer
    \/ SetMenu
    \/ CallbackStart
    \/ CallbackLock
    \/ CallbackDrift
    \/ CallbackCopy
    \/ CallbackDrain
    \/ CallbackFinish

Spec == Init /\ [][Next]_vars

(***************************************************************************)
(* SpecDrift: one session with a fixed number of samples appended per      *)
(* tick (drift.a), a fixed request length (drift.n) and a fixed ratio;     *)
(* whole appends and whole consumes alternate, from drift.init resident    *)
(* samples.  Append positions are not tracked here (pos = 0).              *)
(***************************************************************************)
DriftBatch(n) == [i \in 1..n |-> [pos |-> 0, val |-> 0]]

\* the occupancy the run is compared with
DriftBound ==
    Max(drift.init,
        (resample_rate[1] * (drift.a + 2 * drift.n)) \div resample_rate[2] + 2)
    + drift.a

DriftInit ==
    /\ state = "Emulator"
    /\ emulator = "Some"
    /\ mainPc = "update"
    /\ resample_rate \in Ratios
    /\ \E af \in 0..MaxDriftFrames, nf \in 0..MaxOutFrames, l0 \in 0..MaxDriftInit :
         /\ drift = [a |-> 2 * af, n |-> 2 * nf, init |-> 2 * l0, turn |-> "append"]
         /\ audio_buffer = DriftBatch(2 * l0)
    /\ lock = "free"
    /\ poisoned = FALSE
    /\ arc = 2
    /\ stream = "playing"
    /\ appended = 0
    /\ cbPc = "idle"
    /\ buf = <<>>
    /\ output = <<>>
    /\ cons = NoCons
    /\ max_pos = -1
    /\ fb_image = BlackImage(1, 1)
    /\ frame = NoFrame
    /\ fault = "none"
    /\ dialog_queue = <<>>
    /\ current_dialog = NoDialog
    /\ selected_game = 0
    /\ spawned = 0
    /\ presented = <<>>
    /\ yielded = <<>>
    /\ iteration = NoIteration
    /\ LibIdle

\* one tick of EmulatorState::update: update_audio_buffer as a whole.  The
\* run is cut off once the occupancy is above DriftBound + 2.
DriftAppend ==
    /\ drift.turn = "append"
    /\ mainPc = "update"
    /\ IF poisoned
       THEN /\ mainPc' = "exited"
            /\ UNCHANGED <<audio_buffer, drift>>
       ELSE /\ Len(audio_buffer) <= DriftBound + 2
            /\ audio_buffer' = Extend(audio_buffer, DriftBatch(drift.a))
            /\ drift' = [drift EXCEPT !.turn = "consume"]
            /\ UNCHANGED mainPc
    /\ UNCHANGED <<state, emulator, resample_rate, lock, poisoned, arc, stream,
                   appended, cbVars, fbVars, appVars, libVars>>

\* one host callback as a whole: resize, consume closure, write to the host
DriftConsume ==
    /\ drift.turn = "consume"
    /\ cbPc = "idle"
    /\ mainPc # "exited"
    /\ LET out0 == Resize(buf, drift.n)
           c == Consume(audio_buffer, out0, resample_rate)
       IN  /\ cons' = [NoCons EXCEPT !.skipped = c.skipped]
           /\ IF c.panic
              THEN /\ cbPc' = "panicked"
                   /\ poisoned' = TRUE
                   /\ buf' = out0
                   /\ UNCHANGED <<audio_buffer, output>>
              ELSE /\ audio_buffer' = c.core
                   /\ buf' = c.out
                   /\ output' = WriteOutput(c.out, Len(c.out))
                   /\ UNCHANGED <<cbPc, poisoned>>
    /\ drift' = [drift EXCEPT !.turn = "append"]
    /\ UNCHANGED <<mainVars, resample_rate, lock, arc, stream, appended, max_pos,
                   fbVars, appVars, libVars>>

DriftNext ==
    \/ DriftAppend
    \/ DriftConsume

SpecDrift == DriftInit /\ [][DriftNext]_vars

(***************************************************************************)
(* SpecPixel: the pixel decoder on its own.  A session is running, the     *)
(* core produces no audio, and every tick offers a frame of any format,    *)
(* size, pitch, length and content within the bounds.                      *)
(***************************************************************************)
PixelFrames ==
    {MkFrame("ok", pixfmt, w, h, pad, trunc, pat) :
        pixfmt \in PixelFormats \ {"ARGB1555"}, w \in 1..MaxFbWidth,
        h \in FbHeights, pad \in Pads, trunc \in Truncs, pat \in Patterns}
    \cup
    {MkFrame("ok", "ARGB1555", w, h, 0, 0, "zero") :
        w \in 1..MaxFbWidth, h \in FbHeights}
    \cup
    {MkFrame(avail, "ARGB8888", w, h, 0, 4 * w * h, "zero") :
        avail \in {"none", "error"}, w \in 1..MaxFbWidth, h \in FbHeights}

\* a session as EmulatorState::create leaves it, for a core of any size
PixelInit ==
    /\ state = "Emulator"
    /\ emulator = "Some"
    /\ mainPc = "update"
    /\ resample_rate = <<1, 1>>
    /\ audio_buffer = <<>>
    /\ lock = "free"
    /\ poisoned = FALSE
    /\ arc = 2
    /\ stream = "playing"
    /\ appended = 0
    /\ cbPc = "idle"
    /\ buf = <<>>
    /\ output = <<>>
    /\ cons = NoCons
    /\ max_pos = -1
    /\ drift = NoDrift
    /\ \E w \in 1..MaxFbWidth, h \in FbHeights : fb_image = BlackImage(w, h)
    /\ frame = NoFrame
    /\ fault = "none"
    /\ dialog_queue = <<>>
    /\ current_dialog = NoDialog
    /\ selected_game = 0
    /\ spawned = 0
    /\ presented = <<>>
    /\ yielded = <<>>
    /\ iteration = NoIteration
    /\ LibIdle

\* one tick of EmulatorState::update as a whole: update_framebuffer, then
\* update_audio_buffer appends the empty batch of the tick
PixelTick ==
    /\ mainPc = "update"
    /\ state = "Emulator"
    /\ emulator = "Some"
    /\ \E f \in PixelFrames :
         LET r == UpdateFramebuffer(fb_image, f)
         IN  /\ fb_image' = r.img
             /\ frame' = FrameDone(f, r)
             /\ IF r.outcome \in Panics
                THEN /\ mainPc' = "exited"
                     /\ fault' = r.outcome
                     /\ UNCHANGED audio_buffer
                ELSE /\ audio_buffer' = Extend(audio_buffer, <<>>)
                     /\ UNCHANGED <<mainPc, fault>>
    /\ UNCHANGED <<state, emulator, resample_rate, lock, poisoned, arc, stream,
                   appended, cbVars, drift, appVars, libVars>>

PixelNext == PixelTick

SpecPixel == PixelInit /\ [][PixelNext]_vars

(***************************************************************************)
(* SpecApp: the main loop of macroquad_main with its dialogs, one          *)
(* iteration (App::update, then the match on the event) per step.  The     *)
(* host callback is left out.  main.rs calls menu.update() and             *)
(* emulator.update() without arguments, unlike the versions in menu.rs and *)
(* emulator.rs, so either may return any AppEvent; what a tick does is     *)
(* taken from emulator.rs.  A dialog's event_handler maps its value to an  *)
(* AppEvent.                                                               *)
(***************************************************************************)
AppEvents == {"Continue", "GoToMenu", "StartEmulator", "SpawnDialog"}

\* event_handler of a YesOrNoDialog: the event for true and the one for false
DialogTemplates ==
    {[yes |-> "StartEmulator", no |-> "Continue"],
     [yes |-> "GoToMenu", no |-> "SpawnDialog"],
     [yes |-> "SpawnDialog", no |-> "GoToMenu"],
     [yes |-> "Continue", no |-> "StartEmulator"]}

\* a YesOrNoDialog as it is pushed; id is its position in the spawn order
MkDialog(id, h) == [id |-> id, yes |-> h.yes, no |-> h.no, value |-> FALSE]

\* YesOrNoDialog::update: Left or Right flips the value, Enter finishes
DialogUpdate(d, change, enter) ==
    [dialog |-> [d EXCEPT !.value = IF change THEN ~d.value ELSE d.value],
     update |-> IF enter THEN "Finish" ELSE "Continue"]

\* YesOrNoDialog::produce_event: (self.event_handler)(self.value)
ProduceEvent(d) == IF d.value THEN d.yes ELSE d.no

\* self.current_dialog = self.dialog_queue.pop_front()
PopFront(q) ==
    IF q = <<>> THEN [dialog |-> NoDialog, rest |-> q]
    ELSE [dialog |-> Head(q), rest |-> Tail(q)]

\* a finished dialog that stays the current dialog
FinishKeepsCurrent(d) == d

\* DialogUpdate::Finish: self.current_dialog.take()
FinishTakes(d) == NoDialog

\* a test for the current dialog that overlooks the queue
HasDialogCurrentOnly(cur, q) == cur # NoDialog

\* App::update takes the dialog branch: a dialog is current, or one is queued
\* and becomes current
HasDialog(cur, q) == cur # NoDialog \/ q # <<>>

\* channel counts the host may negotiate
ChannelCounts == {1, 2, 6}

\* what the host does during EmulatorState::create: is there a default output
\* device, does default_output_config succeed, the channel count, do
\* build_output_stream and play succeed
CreateConfigs ==
    [device : BOOLEAN, config : BOOLEAN, channels : ChannelCounts,
     build : BOOLEAN, play : BOOLEAN]

\* config.channels as run_with_format reads it; 0 when create fails earlier
NegotiatedChannels(c) == IF c.device /\ c.config THEN c.channels ELSE 0

\* a session start that checks the channel count after the stream is played
CreateSessionAssertLast(c) ==
    IF ~c.device THEN [ops |-> <<"init">>, fault |-> "no_device"]
    ELSE IF ~c.config THEN [ops |-> <<"init", "config">>, fault |-> "config"]
    ELSE IF ~c.build
        THEN [ops |-> <<"init", "config", "build">>, fault |-> "build"]
    ELSE IF ~c.play
        THEN [ops |-> <<"init", "config", "build", "play">>, fault |-> "play"]
    ELSE IF c.channels # 2
        THEN [ops |-> <<"init", "config", "build", "play", "assert_channels">>,
              fault |-> "channels"]
    ELSE [ops |-> <<"init", "config", "build", "play", "assert_channels">>,
          fault |-> "none"]

\* EmulatorState::create, the audio part: audio::init, audio::run
\* (default_output_config), run_with_format (assert_eq!(channels, 2),
\* build_output_stream, play); the first failure panics
CreateSession(c) ==
    IF ~c.device THEN [ops |-> <<"init">>, fault |-> "no_device"]
    ELSE IF ~c.config THEN [ops |-> <<"init", "config">>, fault |-> "config"]
    ELSE IF c.channels # 2
        THEN [ops |-> <<"init", "config", "assert_channels">>,
              fault |-> "channels"]
    ELSE IF ~c.build
        THEN [ops |-> <<"init", "config", "assert_channels", "build">>,
              fault |-> "build"]
    ELSE IF ~c.play
        THEN [ops |-> <<"init", "config", "assert_channels", "build", "play">>,
              fault |-> "play"]
    ELSE [ops |-> <<"init", "config", "assert_channels", "build", "play">>,
          fault |-> "none"]

\* a GoToMenu that tears the session down before the snapshot is taken
GoToMenuOpsTeardownFirst(has, saved) ==
    IF ~has THEN <<"set_menu">>
    ELSE IF saved
        THEN <<"drop_stream", "drop_buffer", "snapshot", "save", "set_menu">>
    ELSE <<"drop_stream", "drop_buffer", "snapshot", "save_failed">>

\* a GoToMenu that takes and saves a snapshot whether a session exists or not
GoToMenuOpsSnapshotAlways(has, saved) ==
    IF ~has THEN <<"snapshot", "save", "set_menu">>
    ELSE IF saved
        THEN <<"snapshot", "save", "drop_stream", "drop_buffer", "set_menu">>
    ELSE <<"snapshot", "save_failed", "drop_stream", "drop_buffer">>

\* main loop, AppEvent::GoToMenu: with a session, snapshot, save, then the
\* emulator moved out of app is dropped (stream, then buffer); a failed save
\* returns from macroquad_main and the emulator is dropped on the way out
GoToMenuOps(has, saved) ==
    IF ~has THEN <<"set_menu">>
    ELSE IF saved
        THEN <<"snapshot", "save", "drop_stream", "drop_buffer", "set_menu">>
    ELSE <<"snapshot", "save_failed", "drop_stream", "drop_buffer">>

\* a GoToMenu that leaves app.state alone
NextStateKeep(ev, s) == IF ev = "StartEmulator" THEN "Emulator" ELSE s

\* app.state after the match on the event
NextState(ev, s) ==
    IF ev = "GoToMenu" THEN "Menu"
    ELSE IF ev = "StartEmulator" THEN "Emulator"
    ELSE s

\* the session: app.emulator and what an EmulatorState owns
sessVars == <<emulator, resample_rate, audio_buffer, lock, poisoned, arc,
              stream, appended, fb_image>>

\* app.emulator = Some(EmulatorState::create(..)) with a session that started
NewSession ==
    /\ emulator' = "Some"
    /\ resample_rate' = <<1, 1>>
    /\ audio_buffer' = <<>>
    /\ lock' = "free"
    /\ poisoned' = FALSE
    /\ arc' = 2
    /\ stream' = "playing"
    /\ appended' = 0
    /\ fb_image' = BlackImage(1, 1)

\* the emulator moved out of app is dropped: stream, buffer
EndSession ==
    /\ emulator' = "None"
    /\ stream' = "none"
    /\ arc' = 0
    /\ audio_buffer' = <<>>
    /\ UNCHANGED <<resample_rate, lock, poisoned, appended, fb_image>>

\* the match on the event of one iteration (main.rs:88-118); q is the queue
\* as App::update left it, branch and by say where the event came from, pre
\* is what App::update did
Handle(ev, q, branch, by, pre) ==
    /\ state' = NextState(ev, state)
    /\ IF ev = "Continue"
       THEN /\ iteration' = [branch |-> branch, event |-> ev, by |-> by,
                             channels |-> 0,
                             ops |-> pre]
            /\ dialog_queue' = q
            /\ UNCHANGED <<sessVars, mainPc, fault, spawned>>
       ELSE IF ev = "SpawnDialog"
       THEN /\ spawned < MaxDialogs
            /\ \E h \in DialogTemplates :
                  dialog_queue' = Append(q, MkDialog(spawned + 1, h))
            /\ spawned' = spawned + 1
            /\ iteration' = [branch |-> branch, event |-> ev, by |-> by,
                             channels |-> 0,
                             ops |-> pre \o <<"push_back">>]
            /\ UNCHANGED <<sessVars, mainPc, fault>>
       ELSE IF ev = "GoToMenu"
       THEN /\ dialog_queue' = q
            /\ UNCHANGED spawned
            /\ \E saved \in BOOLEAN :
                  /\ iteration' = [branch |-> branch, event |-> ev, by |-> by,
                                   channels |-> 0,
                                   ops |-> pre \o GoToMenuOps(emulator = "Some",
                                                               saved)]
                  /\ IF emulator # "Some"
                     THEN UNCHANGED <<sessVars, mainPc, fault>>
                     ELSE /\ EndSession
                          /\ IF saved
                             THEN UNCHANGED <<mainPc, fault>>
                             ELSE /\ mainPc' = "exited"
                                  /\ fault' = "save"
       ELSE /\ dialog_queue' = q
            /\ UNCHANGED spawned
            /\ \E c \in CreateConfigs :
                  LET r == CreateSession(c)
                  IN  IF r.fault = "none"
                      THEN /\ NewSession
                           /\ iteration' =
                                 [branch |-> branch, event |-> ev, by |-> by,
                                  channels |-> NegotiatedChannels(c),
                                  ops |-> pre \o <<"set_state">> \o r.ops \o
                                          (IF emulator = "Some"
                                           THEN <<"drop_old_stream",
                                                  "drop_old_buffer">>
                                           ELSE <<>>) \o <<"set_emulator">>]
                           /\ UNCHANGED <<mainPc, fault>>
                      ELSE /\ iteration' =
                                 [branch |-> branch, event |-> ev, by |-> by,
                                  channels |-> NegotiatedChannels(c),
                                  ops |-> pre \o <<"set_state">> \o r.ops]
                           /\ mainPc' = "exited"
                           /\ fault' = r.fault
                           /\ UNCHANGED sessVars

\* macroquad_main after constructing App
AppInit == Init

\* an iteration whose App::update takes the dialog branch: the front of the
\* queue becomes current if there is no current dialog, the dialog is
\* updated, and a finished dialog is taken and gives its event
AppDialog ==
    /\ mainPc = "update"
    /\ HasDialog(current_dialog, dialog_queue)
    /\ LET popped == IF current_dialog = NoDialog
                     THEN PopFront(dialog_queue)
                     ELSE [dialog |-> current_dialog, rest |-> dialog_queue]
       IN  /\ popped.dialog # NoDialog
           /\ presented' = IF current_dialog = NoDialog
                           THEN Append(presented, popped.dialog.id)
                           ELSE presented
           /\ \E change \in BOOLEAN, enter \in BOOLEAN :
                 LET u == DialogUpdate(popped.dialog, change, enter)
                 IN  IF u.update = "Finish"
                     THEN /\ current_dialog' = FinishTakes(u.dialog)
                          /\ yielded' = Append(yielded, u.dialog.id)
                          /\ Handle(ProduceEvent(u.dialog), popped.rest,
                                    "dialog", u.dialog.id, <<>>)
                     ELSE /\ current_dialog' = u.dialog
                          /\ UNCHANGED yielded
                          /\ Handle("Continue", popped.rest, "dialog", 0, <<>>)
    /\ UNCHANGED <<selected_game, frame, cbVars, drift,
                   libVars>>

\* an iteration in state Menu without a dialog: menu.update() moves the
\* selection and returns an event
AppMenu ==
    /\ mainPc = "update"
    /\ ~HasDialog(current_dialog, dialog_queue)
    /\ state = "Menu"
    /\ \E g \in {0, 1} : selected_game' = g
    /\ \E ev \in AppEvents :
         Handle(ev, dialog_queue, "menu", 0, <<"menu_update">>)
    /\ UNCHANGED <<current_dialog, presented, yielded, frame, cbVars, drift,
                   libVars>>

\* an iteration in state Emulator without a dialog in which quit is
\* requested (or no emulator exists): the event is GoToMenu
AppQuit ==
    /\ mainPc = "update"
    /\ ~HasDialog(current_dialog, dialog_queue)
    /\ state = "Emulator"
    /\ Handle("GoToMenu", dialog_queue, "quit", 0, <<>>)
    /\ UNCHANGED <<current_dialog, selected_game, presented, yielded, frame,
                   cbVars, drift,
                   libVars>>

\* an iteration in state Emulator without a dialog, quit not requested:
\* emu.run, update_framebuffer, update_audio_buffer().unwrap(); the core
\* produces one stereo frame while the session's budget lasts
AppTick ==
    /\ mainPc = "update"
    /\ ~HasDialog(current_dialog, dialog_queue)
    /\ state = "Emulator"
    /\ emulator = "Some"
    /\ \E f \in TickFrames, audio_ok \in BOOLEAN :
         LET r == UpdateFramebuffer(fb_image, f)
             nf == IF appended + 2 <= MaxSessionSamples THEN 1 ELSE 0
         IN  /\ fb_image' = r.img
             /\ IF r.outcome \in Panics
                THEN /\ frame' = FrameDone(f, r)
                     /\ mainPc' = "exited"
                     /\ fault' = r.outcome
                     /\ iteration' = [branch |-> "tick", event |-> "none",
                                      by |-> 0, channels |-> 0,
                                      ops |-> <<"step", "decode">>]
                     /\ UNCHANGED <<audio_buffer, appended>>
                ELSE IF ~audio_ok
                THEN /\ frame' = FrameDone(f, r)
                     /\ mainPc' = "exited"
                     /\ fault' = "audio_error"
                     /\ iteration' = [branch |-> "tick", event |-> "none",
                                      by |-> 0, channels |-> 0,
                                      ops |-> <<"step", "decode">>]
                     /\ UNCHANGED <<audio_buffer, appended>>
                ELSE /\ frame' = NoFrame
                     /\ audio_buffer' = Extend(audio_buffer,
                                               DriftBatch(2 * nf))
                     /\ appended' = appended + 2 * nf
                     /\ iteration' = [branch |-> "tick", event |-> "Continue",
                                      by |-> 0, channels |-> 0,
                                      ops |-> <<"step", "decode", "append">>]
                     /\ UNCHANGED <<mainPc, fault>>
    /\ UNCHANGED <<state, emulator, resample_rate, lock, poisoned, arc, stream,
                   cbVars, drift, dialog_queue, current_dialog, selected_game,
                   spawned, presented, yielded,
                   libVars>>

\* an iteration in state Emulator without a dialog in which
\* emulator.update() returns StartEmulator or SpawnDialog
AppEmulatorEvent ==
    /\ mainPc = "update"
    /\ ~HasDialog(current_dialog, dialog_queue)
    /\ state = "Emulator"
    /\ emulator = "Some"
    /\ \E ev \in {"StartEmulator", "SpawnDialog"} :
         Handle(ev, dialog_queue, "emulator", 0, <<>>)
    /\ UNCHANGED <<current_dialog, selected_game, presented, yielded, frame,
                   cbVars, drift, libVars>>

AppNext ==
    \/ AppDialog
    \/ AppMenu
    \/ AppQuit
    \/ AppTick
    \/ AppEmulatorEvent

SpecApp == AppInit /\ [][AppNext]_vars

(***************************************************************************)
(* SpecMenu: the menu over a loaded game database, one MenuState::update   *)
(* per step.  The session between a StartEmulator and the next update of   *)
(* the menu is left out: the menu keeps its input and its selection over   *)
(* it.                                                                     *)
(***************************************************************************)
\* a GameDb as GameDb::load leaves it, with one system, t tagged games and u
\* untagged ones
MkGameDb(t, u) ==
    [systems |-> [id \in {1} |-> [extensions |-> {"nes"}]],
     games |-> [id \in 1..t |-> [system_id |-> 1]],
     untagged_games |-> [i \in 1..u |-> [system_id |-> 1,
                                         extension |-> "nes"]]]

\* one database for each number of games, about half of them untagged
MenuGameDbs == {MkGameDb(n - (n \div 2), n \div 2) : n \in 0..MaxGames}

\* the keys for which is_key_pressed is true in one frame; the gamepad
\* supplies every combination of controls
KeySets == {{}, {"Right"}, {"Enter"}}

MenuPanics == {"panic_unwrap", "panic_system"}

\* macroquad_main after constructing App, with the GameDb loaded
MenuInit ==
    /\ AppConstructed
    /\ game_db \in MenuGameDbs
    /\ input = NoInput
    /\ menu_update = NoMenuUpdate
    /\ saves = NoSaves
    /\ save_dir = <<>>
    /\ saves_call = NoSavesCall
    /\ cache = NoCache
    /\ cache_call = NoCacheCall
    /\ db_load = NoDbLoad

\* one MenuState::update
MenuTick ==
    /\ mainPc = "update"
    /\ state = "Menu"
    /\ \E keys \in KeySets, pad \in SUBSET Controls, row_width \in 0..MaxRowWidth :
         LET u == MenuUpdate(game_db, selected_game, input, keys, pad,
                             row_width)
         IN  /\ input' = u.input
             /\ selected_game' = u.selected_game
             /\ menu_update' = [event |-> u.event,
                                previous_game |-> selected_game,
                                row_width |-> row_width]
             /\ IF u.event \in MenuPanics
                THEN /\ mainPc' = "exited"
                     /\ fault' = u.event
                ELSE UNCHANGED <<mainPc, fault>>
    /\ UNCHANGED <<state, emulator, resample_rate, audio_buffer, lock, poisoned,
                   arc, stream, appended, cbVars, drift, fb_image, frame,
                   dialog_queue, current_dialog, spawned, presented, yielded,
                   iteration, game_db, saves, save_dir, saves_call, cache,
                   cache_call, db_load>>

MenuNext == MenuTick

SpecMenu == MenuInit /\ [][MenuNext]_vars

(***************************************************************************)
(* SpecSaves: Saves::load and Saves::save over one save directory, one     *)
(* call per step.                                                          *)
(***************************************************************************)
SavesPath == "saves/"

\* the arguments of Saves::save: <<username, game, date>>
SaveArgs ==
    LET d1 == [year |-> 2024, month |-> 1, day |-> 2, hour |-> 3, minute |-> 4,
               second |-> 5, nano |-> 0]
        d2 == [year |-> 1999, month |-> 12, day |-> 30, hour |-> 23,
               minute |-> 59, second |-> 58, nano |-> 500]
    IN  {<<(<<"a">>), 7, d1>>, <<(<<"a">>), -12, d2>>,
         <<(<<"a", "_", "b">>), 7, d1>>, <<(<<"b">>), 7, d2>>}

\* what File::create and write_all do in one Saves::save
SaveOutcomes == {"written", "create_fails", "write_fails"}

\* files that are in the save directory before the run: x, a_1.sav,
\* a_x_20240102_030405.sav, a_7_0.sav
ForeignNames ==
    {<<"x">>,
     <<"a", "_", "1", ".", "s", "a", "v">>,
     <<"a", "_", "x", "_", "2", "0", "2", "4", "0", "1", "0", "2", "_",
       "0", "3", "0", "4", "0", "5", ".", "s", "a", "v">>,
     <<"a", "_", "7", "_", "0", ".", "s", "a", "v">>}

\* the orders in which read_dir may yield the entries of dir
ReadOrders(dir) ==
    LET n == Cardinality(DOMAIN dir)
    IN  {order \in [1..n -> DOMAIN dir] :
            \A i \in 1..n, j \in 1..n : i # j => order[i] # order[j]}

\* no Saves is loaded; the directory is empty or holds one foreign file
SavesInit ==
    /\ AppConstructed
    /\ game_db = NoGameDb
    /\ input = NoInput
    /\ menu_update = NoMenuUpdate
    /\ saves = NoSaves
    /\ save_dir \in {<<>>} \cup {[n \in {f} |-> "foreign"] : f \in ForeignNames}
    /\ saves_call = NoSavesCall
    /\ cache = NoCache
    /\ cache_call = NoCacheCall
    /\ db_load = NoDbLoad

\* Saves::load(SavesPath)
SavesLoad ==
    /\ mainPc = "update"
    /\ \E order \in ReadOrders(save_dir), readable \in BOOLEAN :
         LET r == Load(SavesPath, order, readable)
         IN  /\ saves' = r.saves
             /\ saves_call' = [saves_call EXCEPT !.op = "load",
                                                 !.result = r.result]
             /\ IF r.result = "panic"
                THEN /\ mainPc' = "exited"
                     /\ fault' = "load_panic"
                ELSE UNCHANGED <<mainPc, fault>>
    /\ UNCHANGED <<state, emulator, resample_rate, audio_buffer, lock, poisoned,
                   arc, stream, appended, cbVars, drift, fb_image, frame,
                   appVars, game_db, input, menu_update, save_dir, cache,
                   cache_call, db_load>>

\* saves.save(data, username, game, date) on a loaded Saves
SavesSave ==
    /\ mainPc = "update"
    /\ saves # NoSaves
    /\ saves_call.count < MaxSaves
    /\ \E args \in SaveArgs, outcome \in SaveOutcomes :
         LET r == Save(saves, save_dir, args[1], args[2], args[3], outcome)
             name == SaveName(args[1], args[2], args[3])
         IN  /\ saves' = r.saves
             /\ save_dir' = r.dir
             /\ saves_call' =
                   [op |-> "save", result |-> r.result,
                    count |-> saves_call.count + 1, name |-> name,
                    written |->
                       IF r.result = "Ok"
                       THEN saves_call.written \cup
                               {[username |-> args[1], game |-> args[2],
                                 date |-> args[3],
                                 path |-> <<saves.path, name>>]}
                       ELSE saves_call.written]
    /\ UNCHANGED <<state, emulator, mainPc, resample_rate, audio_buffer, lock,
                   poisoned, arc, stream, appended, cbVars, drift, fbVars,
                   appVars, game_db, input, menu_update, cache, cache_call,
                   db_load>>

SavesNext ==
    \/ SavesLoad
    \/ SavesSave

SpecSaves == SavesInit /\ [][SavesNext]_vars

(***************************************************************************)
(* SpecCache: calls of the two get_or_insert functions on one Cache, one   *)
(* call per step.                                                          *)
(***************************************************************************)
\* a call: the key, what the producer returns if it is called, and which
\* operation of the database fails
CacheCalls ==
    [key : {"k1", "k2"},
     produced : {[ok |-> FALSE, value |-> <<>>],
                 [ok |-> TRUE, value |-> <<10, 255>>],
                 [ok |-> TRUE, value |-> <<0>>]},
     store : {"none", "get_fails", "insert_fails"}]

\* cache.get_or_insert_rom_hash(key, f)
CacheRomHash ==
    /\ cache_call.count < MaxCacheCalls
    /\ \E c \in CacheCalls :
         LET r == GetOrInsertRomHash(cache.hash_cache, c.key, c.produced,
                                     c.store)
         IN  /\ cache' = [cache EXCEPT !.hash_cache = r.db]
             /\ cache_call' = [op |-> "rom_hash", key |-> c.key,
                               produced |-> c.produced, store |-> c.store,
                               result |-> r.result, value |-> r.value,
                               called |-> r.called,
                               count |-> cache_call.count + 1]
    /\ UNCHANGED <<state, emulator, mainPc, resample_rate, audio_buffer, lock,
                   poisoned, arc, stream, appended, cbVars, drift, fbVars,
                   appVars, game_db, input, menu_update, saves, save_dir,
                   saves_call, db_load>>

\* cache.get_or_insert_image(key, f)
CacheImage ==
    /\ cache_call.count < MaxCacheCalls
    /\ \E c \in CacheCalls :
         LET r == GetOrInsertImage(cache.image_cache, c.key, c.produced,
                                   c.store)
         IN  /\ cache' = [cache EXCEPT !.image_cache = r.db]
             /\ cache_call' = [op |-> "image", key |-> c.key,
                               produced |-> c.produced, store |-> c.store,
                               result |-> r.result, value |-> r.value,
                               called |-> r.called,
                               count |-> cache_call.count + 1]
    /\ UNCHANGED <<state, emulator, mainPc, resample_rate, audio_buffer, lock,
                   poisoned, arc, stream, appended, cbVars, drift, fbVars,
                   appVars, game_db, input, menu_update, saves, save_dir,
                   saves_call, db_load>>

CacheNext ==
    \/ CacheRomHash
    \/ CacheImage

SpecCache == Init /\ [][CacheNext]_vars

(***************************************************************************)
(* SpecGameDb: GameDb::load, one core file or one ROM file per step, the   *)
(* cores first.  What OpenVGDB answers is chosen freely.                   *)
(***************************************************************************)
\* config.system: the preconfigured systems
ConfigSystems ==
    <<[lib |-> "A", name |-> "NES", id |-> 1, ext |-> {"nes"}],
      [lib |-> "B", name |-> "GB", id |-> 2, ext |-> {"gb", "nes"}]>>

\* GameDb::load, the body of the loop over the cores: library_name is the
\* core's library name, db_id the systemID OpenVGDB has for the short name
\* of the preconfigured system, 0 if it has none
InsertSystem(systems, library_name, db_id) ==
    LET found == {i \in 1..Len(ConfigSystems) :
                     ConfigSystems[i].lib = library_name}
    IN  IF found = {} THEN systems
        ELSE LET preconf ==
                     ConfigSystems[CHOOSE i \in found : \A j \in found : i <= j]
                 id == IF db_id # 0 THEN db_id ELSE preconf.id
             IN  [k \in DOMAIN systems \cup {id} |->
                     IF k = id THEN [extensions |-> preconf.ext]
                     ELSE systems[k]]

\* find_system_id_for_extension: the ids that systems.iter().find_map may
\* yield for the extension (it yields the first match in the map's
\* arbitrary order); the extension is lowercased, the configured ones are
\* compared as they are
FindSystemIdForExtension(systems, ext_a) ==
    LET lower == IF ext_a = "NES" THEN "nes" ELSE ext_a
    IN  {id \in DOMAIN systems : lower \in systems[id].extensions}

\* a loop body that inserts a tagged game without looking its system up
LoadRomUnchecked(db, rom, sha1, system_id) ==
    IF ~sha1.ok THEN db
    ELSE IF rom.row.rom_id # 0
        THEN IF ~rom.row.release THEN db
             ELSE [db EXCEPT !.games =
                      [k \in DOMAIN db.games \cup {rom.row.rom_id} |->
                          IF k = rom.row.rom_id
                          THEN [system_id |-> rom.row.system_id]
                          ELSE db.games[k]]]
    ELSE IF system_id # 0
        THEN [db EXCEPT !.untagged_games =
                 Append(@, [system_id |-> system_id,
                            extension |-> rom.extension])]
    ELSE db

\* GameDb::load, the body of the loop over the ROM files once the extension
\* is read: sha1 is what the cache returned, rom.row the row of OpenVGDB for
\* it (rom_id 0: none), system_id what find_system_id_for_extension yielded
\* (0: None)
LoadRom(db, rom, sha1, system_id) ==
    IF ~sha1.ok THEN db
    ELSE IF rom.row.rom_id # 0
        THEN IF ~rom.row.release THEN db
             ELSE IF rom.row.system_id \notin DOMAIN db.systems THEN db
             ELSE [db EXCEPT !.games =
                      [k \in DOMAIN db.games \cup {rom.row.rom_id} |->
                          IF k = rom.row.rom_id
                          THEN [system_id |-> rom.row.system_id]
                          ELSE db.games[k]]]
    ELSE IF system_id # 0
        THEN [db EXCEPT !.untagged_games =
                 Append(@, [system_id |-> system_id,
                            extension |-> rom.extension])]
    ELSE db

\* a ROM file: its path, what hash_rom and the cache do for it, its
\* extension ("none": the file name has none) and its row in OpenVGDB
RomFiles ==
    [path : {"k1", "k2"},
     produced : {[ok |-> FALSE, value |-> <<>>], [ok |-> TRUE, value |-> <<0>>]},
     store : {"none", "insert_fails"},
     extension : {"none", "nes", "NES", "zip"},
     row : {[rom_id |-> 0, system_id |-> 0, release |-> FALSE],
            [rom_id |-> 1, system_id |-> 1, release |-> TRUE],
            [rom_id |-> 1, system_id |-> 1, release |-> FALSE],
            [rom_id |-> 2, system_id |-> 3, release |-> TRUE],
            [rom_id |-> 2, system_id |-> 4, release |-> TRUE]}]

\* one core file of the loop over cores_dir
GameDbCore ==
    /\ db_load.pc \in {"idle", "cores"}
    /\ db_load.cores < MaxCores
    /\ \E library_name \in {"A", "B", "C"}, db_id \in {0, 3} :
         game_db' = [game_db EXCEPT
                       !.systems = InsertSystem(@, library_name, db_id)]
    /\ db_load' = [db_load EXCEPT !.pc = "cores", !.cores = @ + 1]
    /\ UNCHANGED <<state, emulator, mainPc, resample_rate, audio_buffer, lock,
                   poisoned, arc, stream, appended, cbVars, drift, fbVars,
                   appVars, input, menu_update, saves, save_dir, saves_call,
                   cache, cache_call>>

\* one ROM file of the loop over rom_path: extension().unwrap(), the hash
\* through the cache, then the lookups
GameDbRom ==
    /\ db_load.pc \in {"idle", "cores", "roms"}
    /\ db_load.roms < MaxRoms
    /\ \E rom \in RomFiles :
         IF rom.extension = "none"
         THEN /\ db_load' = [db_load EXCEPT !.pc = "panicked", !.roms = @ + 1]
              /\ mainPc' = "exited"
              /\ fault' = "no_extension"
              /\ UNCHANGED <<game_db, cache>>
         ELSE LET sha1 == GetOrInsertRomHash(cache.hash_cache, rom.path,
                                             rom.produced, rom.store)
                  ids == FindSystemIdForExtension(game_db.systems,
                                                  rom.extension)
              IN  /\ cache' = [cache EXCEPT !.hash_cache = sha1.db]
                  /\ \E system_id \in IF ids = {} THEN {0} ELSE ids :
                        game_db' = LoadRom(game_db, rom,
                                           [ok |-> sha1.result = "Ok",
                                            value |-> sha1.value],
                                           system_id)
                  /\ db_load' = [db_load EXCEPT !.pc = "roms", !.roms = @ + 1]
                  /\ UNCHANGED <<mainPc, fault>>
    /\ UNCHANGED <<state, emulator, resample_rate, audio_buffer, lock,
                   poisoned, arc, stream, appended, cbVars, drift, fb_image,
                   frame, appVars, input, menu_update, saves, save_dir,
                   saves_call, cache_call>>

\* Ok(GameDb { systems, games, untagged_games })
GameDbLoaded ==
    /\ db_load.pc \in {"idle", "cores", "roms"}
    /\ db_load' = [db_load EXCEPT !.pc = "loaded"]
    /\ UNCHANGED <<state, emulator, mainPc, resample_rate, audio_buffer, lock,
                   poisoned, arc, stream, appended, cbVars, drift, fbVars,
                   appVars, game_db, input, menu_update, saves, save_dir,
                   saves_call, cache, cache_call>>

GameDbNext ==
    \/ GameDbCore
    \/ GameDbRom
    \/ GameDbLoaded

SpecGameDb == Init /\ [][GameDbNext]_vars

(***************************************************************************)
(* Properties.                                                             *)
(***************************************************************************)
\* positions of the callback between taking and releasing the lock
CbCritical == {"locked", "drifted", "copied"}

\* C1: after every consume operation, in every callback of a session, each
\* output position beyond the last one copied from the source buffer is zero.
C1_TailZeroFilled ==
    cbPc = "filled" => \A i \in (cons.k + 1)..Len(buf) : buf[i] = 0

\* C2: for every ratio, occupancy and request length a consume operation
\* completes without panic: the drift drop never removes more samples than the
\* buffer holds.
C2_ConsumeNeverPanics == cbPc # "panicked"

\* C3: the buffer length is always a multiple of 2, and every consume
\* operation removes an even number of samples.
C3_StereoAligned ==
    /\ Len(audio_buffer) % 2 = 0
    /\ cbPc = "filled" => cons.removed % 2 = 0

\* C4: when the loop has run, output stereo frame i is a copy of source stereo
\* frame floor(i * resample_rate), left to left and right to right, for every
\* i below the requested frame count whose source frame is available.
C4_FrameCopy ==
    cbPc = "copied" =>
        \A i \in 0..(Len(buf) \div 2 - 1) :
            LET f == SampleIndex(i, resample_rate)
            IN  f < Len(audio_buffer) \div 2 =>
                    /\ buf[2 * i + 1] = audio_buffer[2 * f + 1].val
                    /\ buf[2 * i + 2] = audio_buffer[2 * f + 2].val

\* C5: append and consume each run entirely under the one lock: the two
\* threads are never both inside their locked region, the buffer does not
\* change under a thread that holds the lock except by that thread's own
\* steps, and a finished consume leaves the buffer and the output as the
\* whole consume operation applied to the state found when the lock was taken.
C5_LockAtomic ==
    [][ /\ ~(mainPc = "audio_extend" /\ cbPc \in CbCritical)
        /\ ((cbPc \in CbCritical /\ cbPc' = cbPc) => audio_buffer' = audio_buffer)
        /\ ((mainPc = "audio_extend" /\ mainPc' = mainPc)
                => audio_buffer' = audio_buffer)
        /\ ((cbPc = "copied" /\ cbPc' = "filled") =>
                LET c == Consume(cons.buf0, cons.out0, resample_rate)
                IN  /\ ~c.panic
                    /\ audio_buffer' = c.core
                    /\ buf' = c.out) ]_vars

\* C5 witness: the emulation thread waits for the lock while a consume that
\* found samples is between its copy loop and its prefix removal.
C5_Witness ==
    /\ mainPc = "audio_lock"
    /\ cbPc = "copied"
    /\ lock = "cb"
    /\ cons.k > 0

\* C6: the audio stream is stopped before the shared buffer is discarded: a
\* discarded buffer has no playing stream, no callback is in flight without
\* the buffer, and in the Menu state there is neither a playing stream nor a
\* callback in flight.
C6_StreamStoppedFirst ==
    /\ arc = 0 => stream = "none"
    /\ cbPc \notin {"idle", "panicked"} => arc > 0
    /\ state = "Menu" => (stream = "none" /\ cbPc = "idle")

\* C6 witness: a session that appended audio has been torn down: stream
\* stopped, buffer discarded, the Menu state about to be set.
C6_Witness ==
    /\ mainPc = "set_menu"
    /\ stream = "none"
    /\ arc = 0
    /\ appended > 0

\* C7 as stated: with fixed samples per tick, request length and ratio, the
\* occupancy stays below a fixed bound from any initial occupancy.
C7_OccupancyBounded == Len(audio_buffer) <= DriftBound

\* C7 amended: the same for every request length of at least one stereo frame.
C7_OccupancyBoundedPositiveRequest ==
    drift.n > 0 => Len(audio_buffer) <= DriftBound

\* C7 witness: the producer runs ahead of the consumer (more samples per tick
\* than one callback uses) and a consume has just dropped samples and finished.
C7_Witness ==
    /\ drift.n > 0
    /\ drift.a > SampleIndex(drift.n - 1, resample_rate) + 1
    /\ drift.turn = "append"
    /\ cons.skipped > 0
    /\ cbPc = "idle"

\* C8: the samples copied to the output appear in append order: within one
\* callback the append positions never decrease, and none is smaller than a
\* position copied by an earlier callback.
C8_AppendOrder ==
    cbPc = "copied" =>
        /\ \A i, j \in 1..Len(cons.srcs) : i < j => cons.srcs[i] <= cons.srcs[j]
        /\ \A i \in 1..Len(cons.srcs) : cons.srcs[i] >= max_pos

\* C8 witness: a callback that copied at least two samples after an earlier
\* callback of the session had copied some.
C8_Witness ==
    /\ cbPc = "copied"
    /\ Len(cons.srcs) >= 2
    /\ max_pos >= 0

\* C9: in the resampling loop every source read uses an index of at most
\* available - 1 and every output write an index of at most requested - 1.
C9_LoopInBounds ==
    cbPc = "copied" =>
        /\ cons.k <= Len(buf)
        /\ \A i \in 1..Len(cons.reads) : cons.reads[i] <= Len(audio_buffer) - 1

\* C9 witness: the loop filled the whole request and read the last sample.
C9_Witness ==
    /\ cbPc = "copied"
    /\ cons.k > 0
    /\ cons.k = Len(buf)
    /\ cons.last = Len(audio_buffer) - 1

\* C10: a consume that finds only zero samples in the buffer leaves an output
\* that is zero over the full requested length.
C10_SilentSourceSilentOutput ==
    (cbPc = "filled" /\ \A i \in 1..Len(cons.buf0) : cons.buf0[i].val = 0)
        => \A i \in 1..Len(buf) : buf[i] = 0

\* C11: a consume operation drops samples from the front of the buffer before
\* resampling if and only if delay_factor > 1.6, and then exactly
\* ((delay_factor - 1.5) * requested) truncated; otherwise nothing is removed
\* before the copy loop.
C11_DropPolicy ==
    (cbPc \in {"drifted", "panicked"} /\ Len(buf) > 0) =>
        LET len0 == Len(cons.buf0)
            n == Len(buf)
            dropped == IF 5 * len0 * resample_rate[2] > 8 * n * resample_rate[1]
                       THEN SkippedSamples(len0, n, resample_rate)
                       ELSE 0
        IN  /\ Len(audio_buffer) = len0 - dropped
            /\ audio_buffer = SubSeq(cons.buf0, dropped + 1, len0)

\* C12: whenever drift compensation drops samples, the samples left are
\* enough for the same operation to fill every requested output position.
C12_DropLeavesEnough ==
    (cbPc = "copied" /\ cons.skipped > 0) => cons.k = Len(buf)

\* C13: a consume that copied at least one sample removes, from the buffer as
\* it is after the drift drop, the prefix up to and including the last
\* consumed source index; the remaining samples keep their order.
C13_PrefixRemoved ==
    [][ (cbPc = "copied" /\ cbPc' = "filled" /\ cons.k > 0) =>
            audio_buffer' = SubSeq(audio_buffer, cons.reads[cons.k] + 2,
                                   Len(audio_buffer)) ]_vars

\* C13 witness: a consume that decimated (removed more samples than it copied)
\* has finished and left samples behind.
C13_Witness ==
    /\ cbPc = "filled"
    /\ cons.k > 0
    /\ cons.removed > cons.k
    /\ Len(audio_buffer) > 0
    /\ lock = "free"
    /\ mainPc = "update"

\* the tick in progress offered a frame of a format the decoder implements
DecodedFrame ==
    /\ frame.avail = "ok"
    /\ frame.pixfmt \in {"ARGB8888", "RGB565"}

\* the frame of the tick is complete: source length = pitch * height
CompleteFrame == frame.len = frame.pitch * frame.height

\* C14: for every format, width, height, pitch and source length, truncated
\* frames included, the pixel decoder never reads outside the source and
\* never fails (stated here for the two formats the decoder implements).
C14_DecoderNeverFails ==
    DecodedFrame => frame.outcome = "ok"

\* C15: every pixel of a complete RGB565 frame, the last pixel of the last
\* row included, is written to the image, and a pixel whose 16-bit value is
\* 0xF800 gets R within 7 of 255, G = 0, B = 0 (and A = 255).
C15_Rgb565EveryPixel ==
    (frame.avail = "ok" /\ frame.pixfmt = "RGB565" /\ CompleteFrame) =>
        \A k \in 0..(frame.width * frame.height - 1) :
            /\ k \in frame.written
            /\ (/\ FbByte(frame.pat, FbIndex(frame, k)) = 0
                /\ FbByte(frame.pat, FbIndex(frame, k) + 1) = 248) =>
                    /\ fb_image.bytes[4 * k + 1] \in 248..255
                    /\ fb_image.bytes[4 * k + 2] = 0
                    /\ fb_image.bytes[4 * k + 3] = 0
                    /\ fb_image.bytes[4 * k + 4] = 255

\* C16: for a complete ARGB8888 frame with pitch >= 4 * width, the pixel at
\* row r, column c of the image has R, G, B equal to the source bytes 2, 1, 0
\* at offset pitch * r + 4 * c, and A = 255.
C16_Argb8888Exact ==
    (frame.avail = "ok" /\ frame.pixfmt = "ARGB8888" /\ CompleteFrame) =>
        /\ frame.outcome = "ok"
        /\ fb_image.width = frame.width
        /\ fb_image.height = frame.height
        /\ \A r \in 0..(frame.height - 1), c \in 0..(frame.width - 1) :
              LET off == frame.pitch * r + 4 * c
                  t == 4 * (frame.width * r + c)
              IN  /\ fb_image.bytes[t + 1] = FbByte(frame.pat, off + 2)
                  /\ fb_image.bytes[t + 2] = FbByte(frame.pat, off + 1)
                  /\ fb_image.bytes[t + 3] = FbByte(frame.pat, off)
                  /\ fb_image.bytes[t + 4] = 255

\* C16 witness: a complete 2 x 2 ARGB8888 frame with row padding and bytes
\* that all differ has been decoded.
C16_Witness ==
    /\ frame.avail = "ok"
    /\ frame.pixfmt = "ARGB8888"
    /\ CompleteFrame
    /\ frame.width = 2
    /\ frame.height = 2
    /\ frame.pitch > 4 * frame.width
    /\ frame.pat = "ramp"
    /\ frame.outcome = "ok"
    /\ frame.written = 0..3
    /\ mainPc = "update"

\* C17: a framebuffer in ARGB1555 format makes decoding fail with an explicit
\* error outcome (not a panic) and writes no pixel.
C17_UnsupportedFormatIsError ==
    (frame.avail = "ok" /\ frame.pixfmt = "ARGB1555") =>
        /\ frame.outcome \notin Panics
        /\ mainPc # "exited"
        /\ frame.written = {}

\* the bytes of pixel k of an image
PixelOf(img, k) == SubSeq(img.bytes, 4 * k + 1, 4 * k + 4)

\* C18: after every tick that leaves the session running the image has the
\* core's width and height and width * height * 4 bytes; it is replaced by an
\* opaque black image exactly when the width or height differs from the
\* image of the previous tick, before decoding, and otherwise reused in place:
\* a pixel the decoder did not write is black after a replacement and keeps
\* its previous bytes otherwise.
C18_ImageTracksCore ==
    [][ (frame'.avail # "idle" /\ mainPc' # "exited") =>
            LET changed == \/ frame'.width # fb_image.width
                           \/ frame'.height # fb_image.height
            IN  /\ fb_image'.width = frame'.width
                /\ fb_image'.height = frame'.height
                /\ Len(fb_image'.bytes) = 4 * frame'.width * frame'.height
                /\ frame'.resized = changed
                /\ \A k \in 0..(frame'.width * frame'.height - 1) :
                      k \notin frame'.written =>
                          PixelOf(fb_image', k) =
                              IF changed THEN <<0, 0, 0, 255>>
                              ELSE PixelOf(fb_image, k) ]_vars

\* C18 witness: a tick reused the image in place and a pixel the decoder
\* skipped still shows what an earlier tick wrote there.
C18_Witness ==
    /\ frame.avail = "ok"
    /\ frame.outcome = "ok"
    /\ ~frame.resized
    /\ frame.written # {}
    /\ \E k \in 0..(frame.width * frame.height - 1) :
          /\ k \notin frame.written
          /\ PixelOf(fb_image, k) # <<0, 0, 0, 255>>
    /\ mainPc = "update"

\* C19: a tick in which the core has no framebuffer is not fatal: the session
\* keeps running (the tick's audio read itself succeeding).
C19_NoFramebufferNotFatal ==
    (frame.avail = "none" /\ fault # "audio_error") => mainPc # "exited"

\* C20: when the core reports an error other than 'no framebuffer' while the
\* framebuffer or the audio samples of a tick are read, the session ends and
\* the application goes on in the Menu state: the process does not end.
C20_CoreErrorReturnsToMenu ==
    fault \in {"panic_error", "audio_error"} => mainPc # "exited"

\* C21: when opening the audio device or building or starting the stream
\* fails during session start, the failure is returned to the caller and the
\* application is left with no session: state Menu, no emulator object, no
\* running stream, and the main loop goes on.
C21_CreateFailureLeavesMenu ==
    fault = "create" =>
        /\ mainPc # "exited"
        /\ state = "Menu"
        /\ emulator = "None"
        /\ stream = "none"

\* C26: a consume operation that copies no sample to the output removes
\* nothing from the shared buffer (stated here for consumes without a drift
\* drop).
C26_NoCopyNoRemoval ==
    (cbPc = "filled" /\ cons.k = 0 /\ cons.skipped = 0) => cons.removed = 0

\* C27: on a tick where the core reports no framebuffer the image is exactly
\* what it was before the tick, whatever width, height and pitch the core
\* reports on that tick.
C27_NoFramebufferKeepsImage ==
    [][ frame'.avail = "none" => fb_image' = fb_image ]_vars

\* C28: in every state of a session every pixel of the image has alpha 255,
\* pixels the decoder skipped and pixels of a freshly allocated image
\* included.
C28_AlphaOpaque ==
    emulator = "Some" =>
        /\ Len(fb_image.bytes) = 4 * fb_image.width * fb_image.height
        /\ \A k \in 0..(fb_image.width * fb_image.height - 1) :
              fb_image.bytes[4 * k + 4] = 255

\* C28 witness: a tick replaced the image and the decoder wrote some of its
\* pixels and skipped others.
C28_Witness ==
    /\ emulator = "Some"
    /\ frame.avail = "ok"
    /\ frame.outcome = "ok"
    /\ frame.resized
    /\ frame.written # {}
    /\ frame.written # 0..(frame.width * frame.height - 1)
    /\ mainPc = "update"

\* the operation op is among the operations ops of an iteration
HasOp(ops, op) == \E i \in 1..Len(ops) : ops[i] = op

\* position of the first op in ops, 0 if there is none
OpIndex(ops, op) ==
    IF HasOp(ops, op) THEN CHOOSE i \in 1..Len(ops) :
                               ops[i] = op /\ \A j \in 1..(i - 1) : ops[j] # op
    ELSE 0

\* C22: when the host negotiates a channel count other than 2, session start
\* fails before any output stream is built or played, so no callback runs in
\* that session.
C22_ChannelsCheckedFirst ==
    (iteration.event = "StartEmulator" /\ iteration.channels \notin {0, 2}) =>
        /\ fault = "channels"
        /\ mainPc = "exited"
        /\ ~HasOp(iteration.ops, "build")
        /\ ~HasOp(iteration.ops, "play")
        /\ ~HasOp(iteration.ops, "set_emulator")
        /\ cbPc = "idle"

\* C22 witness: a session start met a host with 6 channels and ended at the
\* channel check.
C22_Witness ==
    /\ iteration.event = "StartEmulator"
    /\ iteration.channels = 6
    /\ HasOp(iteration.ops, "assert_channels")
    /\ fault = "channels"

\* C23: a tick in which quit is not requested performs exactly one core step,
\* then one framebuffer decode attempt, then one append of the audio of that
\* step; a tick in which quit is requested performs none of them.
C23_TickOrder ==
    /\ iteration.branch = "tick" =>
           iteration.ops = <<"step", "decode", "append">>
    /\ iteration.branch = "quit" =>
           /\ ~HasOp(iteration.ops, "step")
           /\ ~HasOp(iteration.ops, "decode")
           /\ ~HasOp(iteration.ops, "append")

C25_StateMatchesSession ==
    mainPc = "update" => (state = "Emulator" <=> emulator = "Some")

\* C25 witness: a dialog gave GoToMenu while no session existed.
C25_Witness ==
    /\ mainPc = "update"
    /\ iteration.branch = "dialog"
    /\ iteration.event = "GoToMenu"
    /\ ~HasOp(iteration.ops, "snapshot")
    /\ state = "Menu"
    /\ emulator = "None"
    /\ spawned >= 2

\* C29: while a dialog is the current dialog (or becomes it in this update),
\* an application update neither steps the core nor appends audio nor
\* updates the menu; apart from the dialog and the queue, things change only
\* through the event of a dialog that finishes.
C29_DialogBlocksUpdate ==
    [][ (mainPc = "update" /\ (current_dialog # NoDialog \/ dialog_queue # <<>>))
        => /\ iteration'.branch = "dialog"
           /\ ~HasOp(iteration'.ops, "step")
           /\ ~HasOp(iteration'.ops, "decode")
           /\ ~HasOp(iteration'.ops, "append")
           /\ ~HasOp(iteration'.ops, "menu_update")
           /\ selected_game' = selected_game
           /\ frame' = frame
           /\ Len(audio_buffer') <= Len(audio_buffer)
           /\ iteration'.by = 0 =>
                 UNCHANGED <<state, sessVars, mainPc, fault, spawned>> ]_vars

\* C29 witness: a dialog was updated without finishing while a session that
\* has appended audio is running.
C29_Witness ==
    /\ current_dialog # NoDialog
    /\ iteration.branch = "dialog"
    /\ iteration.by = 0
    /\ state = "Emulator"
    /\ emulator = "Some"
    /\ Len(audio_buffer) > 0
    /\ mainPc = "update"

\* C30: dialogs become current one at a time in the order they were spawned;
\* each gives exactly one event, on the update in which it finishes; a later
\* dialog is never current before an earlier one has finished.
C30_DialogsInOrder ==
    /\ presented = [i \in 1..Len(presented) |-> i]
    /\ yielded = SubSeq(presented, 1, Len(yielded))
    /\ Len(presented) <= spawned
    /\ Len(presented) - Len(yielded)
          = IF current_dialog = NoDialog THEN 0 ELSE 1
    /\ current_dialog # NoDialog =>
          current_dialog.id = presented[Len(presented)]
    /\ \A i \in 1..Len(dialog_queue) :
          dialog_queue[i].id = Len(presented) + i
    /\ Len(dialog_queue) = spawned - Len(presented)
    /\ iteration.by # 0 =>
          /\ iteration.branch = "dialog"
          /\ yielded # <<>>
          /\ yielded[Len(yielded)] = iteration.by

\* C30 witness: the third dialog is current after the first two have given
\* their events, the second of them a SpawnDialog.
C30_Witness ==
    /\ yielded = <<1, 2>>
    /\ current_dialog # NoDialog
    /\ current_dialog.id = 3
    /\ iteration.branch = "dialog"
    /\ iteration.by = 0
    /\ mainPc = "update"

\* how often the operation op is among the operations ops of an iteration
CountOp(ops, op) == Cardinality({i \in 1..Len(ops) : ops[i] = op})

StreamsAfter(ops, i) ==
    (IF \E j \in (i + 1)..Len(ops) :
            ops[j] \in {"drop_stream", "drop_old_stream"}
     THEN 1 ELSE 0)
    + (IF \E j \in 1..i : ops[j] = "build" THEN 1 ELSE 0)

\* C32: at most one emulator session, and hence at most one running audio
\* stream, exists at any time, including when a StartEmulator event arrives
\* while a session is already running.
C32_AtMostOneStream ==
    \A i \in 0..Len(iteration.ops) : StreamsAfter(iteration.ops, i) <= 1

\* number of games the menu lists
GameCount == Len(GamesIter(game_db))

\* C33: for any number of games (zero included) and any sequence of menu
\* inputs, whenever Enter is acted on selected_game is below the game count,
\* and after every update selected_game is at most max(game count - 1, 0).
C33_SelectionInBounds ==
    menu_update.event # "none" =>
        /\ selected_game <= Max(GameCount - 1, 0)
        /\ input.enter => selected_game < GameCount

\* the directions in the order get_input tries them
DirectionOrder == <<"Right", "Left", "Down", "Up">>

\* the flag of a direction in a MenuInput
Pressed(inp, d) ==
    IF d = "Right" THEN inp.right
    ELSE IF d = "Left" THEN inp.left
    ELSE IF d = "Down" THEN inp.down
    ELSE inp.up

\* C34: a direction held across consecutive menu updates moves the selection
\* only on the first update of the press; per update at most one direction
\* is applied, the first of Right, Left, Down, Up among the newly pressed
\* ones, and the selection moves by that direction only.
C34_RisingEdgePriority ==
    [][ LET new == {i \in 1..4 : /\ ~Pressed(input, DirectionOrder[i])
                                 /\ Pressed(input', DirectionOrder[i])}
            d == input'.direction
        IN  /\ \A i \in 1..4 :
                  (Pressed(input, DirectionOrder[i])
                     /\ Pressed(input', DirectionOrder[i]))
                  => d # DirectionOrder[i]
            /\ new = {} => (d = "None" /\ selected_game' = selected_game)
            /\ new # {} =>
                  /\ \E i \in new : /\ d = DirectionOrder[i]
                                    /\ \A j \in new : i <= j
                  /\ selected_game' =
                        MoveSelection(selected_game, d,
                                      menu_update'.row_width, GameCount) ]_vars

\* C34 witness: Right was held over two updates with Down newly pressed in
\* the second, which moved the selection down a row of two.
C34_Witness ==
    /\ input.right
    /\ input.direction = "Down"
    /\ menu_update.row_width = 2
    /\ menu_update.previous_game = 0
    /\ selected_game = 2

\* the in-memory index idx holds a SaveState with these fields under
\* username
Indexed(idx, username, path, game, date) ==
    /\ username \in DOMAIN idx
    /\ \E i \in 1..Len(idx[username]) :
          idx[username][i] = [path |-> path, game |-> game, date |-> date]

\* C35: Saves::save adds the SaveState to the in-memory index only after the
\* file has been created and fully written; if creating or writing the file
\* fails, an error is returned and the in-memory index is unchanged.
C35_IndexAfterWrite ==
    [][ saves_call'.count = saves_call.count + 1 =>
          LET name == saves_call'.name
          IN  /\ saves_call'.result = "Ok" =>
                    /\ name \in DOMAIN save_dir'
                    /\ save_dir'[name] = "written"
                    /\ \E u \in DOMAIN saves'.saves :
                          LET vec == saves'.saves[u]
                          IN  /\ vec # <<>>
                              /\ vec[Len(vec)].path = <<saves.path, name>>
                              /\ saves'.saves =
                                    PushSave(saves.saves, u, vec[Len(vec)])
              /\ saves_call'.result # "Ok" =>
                    /\ saves_call'.result = "Err"
                    /\ saves' = saves
                    /\ (name \in DOMAIN save_dir' /\ name \notin DOMAIN save_dir)
                          => save_dir'[name] = "partial" ]_vars

\* C35 witness: a write failed half way; the file is there, the index has no
\* entry for it, and an earlier save is still indexed.
C35_Witness ==
    /\ saves_call.op = "save"
    /\ saves_call.result = "Err"
    /\ saves_call.name \in DOMAIN save_dir
    /\ save_dir[saves_call.name] = "partial"
    /\ saves_call.written # {}
    /\ \A u \in DOMAIN saves.saves : \A i \in 1..Len(saves.saves[u]) :
          saves.saves[u][i].path # <<saves.path, saves_call.name>>

\* the file name has the form username_game_date_time
ValidName(name) ==
    LET parts == SplitN3(FileStem(name))
    IN  /\ Len(parts) = 3
        /\ ParseI64(parts[2]).ok
        /\ ParseDate(parts[3]).ok

\* C36: Saves::load skips the entries of the save directory whose file names
\* do not have the form username_game_date_time and still returns all valid
\* saves, rather than failing or aborting the load.
C36_InvalidNamesSkipped ==
    (saves_call.op = "load" /\ saves_call.result # "ErrReadDir") =>
        /\ saves_call.result = "Ok"
        /\ \A name \in DOMAIN save_dir :
              ValidName(name) =>
                 LET parts == SplitN3(FileStem(name))
                 IN  Indexed(saves.saves, parts[1], <<SavesPath, name>>,
                             ParseI64(parts[2]).value,
                             ParseDate(parts[3]).date)

\* C37: for any username, game id and date, a save written by Saves::save is
\* recovered by a subsequent Saves::load of the same directory as an entry
\* under the same username with the same game id, date (to the second) and
\* path.
C37_SaveLoadRoundTrip ==
    (saves_call.op = "load" /\ saves_call.result = "Ok") =>
        \A w \in saves_call.written :
            Indexed(saves.saves, w.username, w.path, w.game,
                    [w.date EXCEPT !.nano = 0])

\* C38: get_or_insert_image and get_or_insert_rom_hash call the producer
\* only when the key is absent, store its result and return the stored
\* value, without calling the producer, on every later call for the same
\* key; when the producer fails nothing is stored and the error is returned.
\* (A call in which the database itself fails returns an error and stores
\* nothing.)
C38_GetOrInsert ==
    [][ cache_call'.count = cache_call.count + 1 =>
          LET c == cache_call'
              before == IF c.op = "rom_hash" THEN cache.hash_cache
                        ELSE cache.image_cache
              after == IF c.op = "rom_hash" THEN cache'.hash_cache
                       ELSE cache'.image_cache
              made == IF c.op = "rom_hash" THEN BytesToHex(c.produced.value)
                      ELSE c.produced.value
          IN  /\ c.called => c.key \notin DOMAIN before
              /\ (c.key \in DOMAIN before /\ c.store # "get_fails") =>
                    /\ ~c.called
                    /\ c.result = "Ok"
                    /\ c.value = before[c.key]
                    /\ after = before
              /\ (c.key \notin DOMAIN before /\ c.store = "none") =>
                    /\ c.called
                    /\ c.produced.ok =>
                          /\ c.result = "Ok"
                          /\ c.value = made
                          /\ c.key \in DOMAIN after
                          /\ after[c.key] = made
                          /\ \A k \in DOMAIN before : after[k] = before[k]
              /\ (c.called /\ ~c.produced.ok) =>
                    /\ c.result = "Err"
                    /\ after = before
              /\ c.result = "Err" => after = before
              /\ c.op = "rom_hash" => cache'.image_cache = cache.image_cache
              /\ c.op = "image" => cache'.hash_cache = cache.hash_cache ]_vars

\* C38 witness: a later call for a key whose hash was produced and stored
\* before returns the stored hex string and does not call the producer,
\* which would have returned something else.
C38_Witness ==
    /\ cache_call.op = "rom_hash"
    /\ cache_call.count >= 2
    /\ ~cache_call.called
    /\ cache_call.result = "Ok"
    /\ cache_call.value = <<"0", "A", "F", "F">>
    /\ cache_call.produced = [ok |-> TRUE, value |-> <<0>>]
    /\ cache.hash_cache[cache_call.key] = cache_call.value

\* C39: every game exposed by GameDb::games_iter, tagged or untagged, has a
\* system_id that is a key of the systems map, so GameDb::get_system
\* succeeds for every listed game.
C39_ListedGamesHaveSystem ==
    \A i \in 1..Len(GamesIter(game_db)) :
        GamesIter(game_db)[i].game.system_id \in DOMAIN game_db.systems

\* C39 witness: a loaded database lists a tagged game of a system known
\* under its OpenVGDB id and an untagged game found by its extension.
C39_Witness ==
    /\ db_load.pc = "loaded"
    /\ 2 \in DOMAIN game_db.games
    /\ game_db.games[2].system_id = 3
    /\ Len(game_db.untagged_games) = 1
    /\ game_db.untagged_games[1].extension = "NES"
    /\ Len(GamesIter(game_db)) = 2

====
